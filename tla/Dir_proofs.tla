----------------------------- MODULE Dir_proofs -----------------------------
(***************************************************************************)
(* Loops that share a Dir skip no name and give none out twice, proved for *)
(* any number of Dirs, of loops and of names in the directory.             *)
(***************************************************************************)
EXTENDS Dir, FiniteSetTheorems, TLAPS

(* Nothing more is to be had from a Dir, or it was cut short. *)
Spent(d) == Len(takers[d]) = Entries \/ cut[d]

(* Where a loop is agrees with the Dir it reads. *)
LoopsHaveTheirDir ==
  \A l \in Loops :
    /\ loop[l] = "idle" <=> over[l] = NoDir
    /\ loop[l] = "idle" => got[l] = <<>>
    /\ loop[l] \in {"awaiting", "body"} => iter[over[l]] \in {"open", "closed"}
    /\ loop[l] = "body" => answer[l] # 0

(* A name is taken from the one Dir a loop reads. *)
LoopsTakeFromTheirDir ==
  \A l \in Loops, d \in Dirs : over[l] # d => Taken(l, d) = {}

(* What a loop awaits is the last name it took. *)
AwaitedWasTakenLast ==
  \A l \in Loops, d \in Dirs : over[l] = d /\ loop[l] = "awaiting" /\ answer[l] # 0 =>
    /\ answer[l] \in Taken(l, d)
    /\ \A i \in Taken(l, d) : i <= answer[l]

(* A closed Dir is spent, and no Dir hands out more than there is. *)
ClosedIsSpent ==
  \A d \in Dirs : /\ Len(takers[d]) <= Entries
                  /\ iter[d] = "closed" => Spent(d)

IInv ==
  /\ TypeOK
  /\ LoopsHaveTheirDir
  /\ LoopsTakeFromTheirDir
  /\ AwaitedWasTakenLast
  /\ ClosedIsSpent
  /\ LoopsShareTheNames

(* The members of a sequence. *)
LEMMA MembersOfSeq ==
  ASSUME NEW S, NEW s \in Seq(S), NEW i \in DOMAIN s
  PROVE  s[i] \in S
  OBVIOUS

(* Ending an access changes the counts and keeps them of their types. *)
LEMMA StopAccessTypes ==
  ASSUME TypeOK, NEW d \in Dirs, NEW t, StopAccess(d, t)
  PROVE  /\ granted' \in Nat
         /\ token' \in [Dirs -> {"none", "granted", "refused", "returned", "overreturned"}]
<1>1. ASSUME OneLess PROVE granted' \in Nat
  BY <1>1 DEF OneLess, TypeOK
<1>2. CASE t = "granted"
  BY <1>1, <1>2 DEF StopAccess, TypeOK
<1>3. CASE t = "refused"
  BY <1>1, <1>3 DEF StopAccess, TypeOK
<1>4. CASE t \notin {"granted", "refused"}
  BY <1>4 DEF StopAccess, TypeOK
<1> QED
  BY <1>2, <1>3, <1>4

(* What next() of the iterator does to the names and to who has them.      *)
LEMMA NextNameTakes ==
  ASSUME IInv, NEW d \in Dirs, NEW who \in Loops \union {Program},
         NEW name \in 0..Entries, NextName(d, who, name), Usable(d)
  PROVE  /\ takers' \in [Dirs -> Seq(Loops \union {Program})]
         /\ cut' \in [Dirs -> BOOLEAN]
         /\ \A e \in Dirs : Len(takers'[e]) <= Entries
         /\ \A e \in Dirs : Spent(e) => Spent(e)'
         /\ name = 0 => UNCHANGED takers /\ Spent(d)'
         /\ name # 0 => /\ name = Len(takers[d]) + 1
                        /\ takers' = [takers EXCEPT ![d] = Append(@, who)]
<1> USE EntriesIsNat
<1>1. CASE /\ iter[d] = "open" /\ Len(takers[d]) < Entries
           /\ name = Len(takers[d]) + 1
           /\ takers' = [takers EXCEPT ![d] = Append(@, who)]
           /\ UNCHANGED cut
  <2>1. takers[d] \in Seq(Loops \union {Program}) /\ Len(takers[d]) \in Nat
    BY DEF IInv, TypeOK
  <2>2. /\ Append(takers[d], who) \in Seq(Loops \union {Program})
        /\ Len(Append(takers[d], who)) = Len(takers[d]) + 1
    BY <2>1
  <2>3. \A e \in Dirs : takers'[e] = IF e = d THEN Append(takers[d], who) ELSE takers[e]
    BY <1>1 DEF IInv, TypeOK
  <2>4. \A e \in Dirs : Len(takers'[e]) <= Entries
    BY <1>1, <2>1, <2>2, <2>3 DEF IInv, ClosedIsSpent
  <2>5. \A e \in Dirs : Spent(e) => Spent(e)'
    BY <1>1, <2>1, <2>2, <2>3 DEF Spent
  <2>6. takers' \in [Dirs -> Seq(Loops \union {Program})]
    BY <1>1, <2>2 DEF IInv, TypeOK
  <2> QED
    BY <1>1, <2>1, <2>4, <2>5, <2>6 DEF IInv, TypeOK
<1>2. CASE /\ name = 0
           /\ iter[d] = "open" => Len(takers[d]) = Entries
           /\ UNCHANGED <<takers, cut>>
  BY <1>2 DEF IInv, TypeOK, ClosedIsSpent, Spent, Usable
<1>3. CASE /\ name = 0
           /\ cut' = [cut EXCEPT ![d] = TRUE]
           /\ UNCHANGED takers
  BY <1>3 DEF IInv, TypeOK, ClosedIsSpent, Spent
<1> QED
  BY <1>1, <1>2, <1>3 DEF NextName

(* Who has which name after one was handed to who.                         *)
LEMMA TakenGrows ==
  ASSUME TypeOK, NEW d \in Dirs, NEW who \in Loops \union {Program},
         takers' = [takers EXCEPT ![d] = Append(@, who)],
         NEW l \in Loops, NEW e \in Dirs
  PROVE  Taken(l, e)' = IF e = d /\ l = who THEN Taken(l, e) \union {Len(takers[d]) + 1}
                                            ELSE Taken(l, e)
<1>1. takers[d] \in Seq(Loops \union {Program})
  BY DEF TypeOK
<1>2. CASE e = d
  <2>1. takers'[e] = Append(takers[d], who)
    BY <1>2 DEF TypeOK
  <2>2. /\ DOMAIN takers'[e] = DOMAIN takers[d] \union {Len(takers[d]) + 1}
        /\ Len(takers[d]) + 1 \notin DOMAIN takers[d]
        /\ \A i \in DOMAIN takers[d] : takers'[e][i] = takers[d][i]
        /\ takers'[e][Len(takers[d]) + 1] = who
    BY <1>1, <2>1
  <2> QED
    BY <1>2, <2>2 DEF Taken
<1>3. CASE e # d
  BY <1>3 DEF TypeOK, Taken
<1> QED
  BY <1>2, <1>3

(* Closing an iterator is a matter of the iterator and of its access.      *)
LEMMA CloseIteratorTypes ==
  ASSUME TypeOK, NEW d \in Dirs, NEW to \in {"closed", "gone"}, CloseIterator(d, to)
  PROVE  /\ iter' = [iter EXCEPT ![d] = to]
         /\ iter' \in [Dirs -> {"none", "opening", "failed", "open", "closed", "gone"}]
         /\ granted' \in Nat
         /\ token' \in [Dirs -> {"none", "granted", "refused", "returned", "overreturned"}]
<1>1. StopAccess(d, token[d]) /\ iter' = [iter EXCEPT ![d] = to]
  BY DEF CloseIterator
<1> QED
  BY <1>1, StopAccessTypes DEF TypeOK

(* Every step keeps the types.                                             *)
LEMMA TypeStep == IInv /\ [Next]_vars => TypeOK'
<1> SUFFICES ASSUME IInv, [Next]_vars PROVE TypeOK'
  OBVIOUS
<1> USE EntriesIsNat
<1>0. TypeOK
  BY DEF IInv
<1>1. CASE UNCHANGED vars
  BY <1>0, <1>1 DEF TypeOK, vars, loopVars
<1>2. ASSUME NEW d \in Dirs, Opendir(d) PROVE TypeOK'
  BY <1>0, <1>2 DEF TypeOK, Opendir, loopVars
<1>3. ASSUME NEW d \in Dirs, RunOpendir(d) PROVE TypeOK'
  <2>1. iter' \in [Dirs -> {"none", "opening", "failed", "open", "closed", "gone"}]
    BY <1>0, <1>3 DEF RunOpendir, TypeOK
  <2>2. /\ granted' \in Nat
        /\ token' \in [Dirs -> {"none", "granted", "refused", "returned", "overreturned"}]
    <3>1. CASE \E t \in {"none", "granted", "refused"} :
                 /\ token' = [token EXCEPT ![d] = t]
                 /\ granted' = IF t = "granted" THEN granted + 1 ELSE granted
      BY <1>0, <3>1 DEF TypeOK
    <3>2. CASE UNCHANGED granted /\ (UNCHANGED token \/ token' = [token EXCEPT ![d] = "returned"])
      BY <1>0, <3>2 DEF TypeOK
    <3>3. CASE StopAccess(d, "refused")
      BY <1>0, <3>3, StopAccessTypes
    <3> QED
      BY <1>3, <3>1, <3>2, <3>3 DEF RunOpendir
  <2> QED
    BY <1>0, <1>3, <2>1, <2>2 DEF TypeOK, RunOpendir, loopVars
<1>4. ASSUME NEW d \in Dirs, Read(d) PROVE TypeOK'
  <2>1. PICK name \in 0..Entries : NextName(d, Program, name)
    BY <1>4 DEF Read
  <2>2. /\ takers' \in [Dirs -> Seq(Loops \union {Program})]
        /\ cut' \in [Dirs -> BOOLEAN]
    BY <1>4, <2>1, NextNameTakes DEF Read
  <2> QED
    BY <1>0, <1>4, <2>2 DEF TypeOK, Read, loopVars
<1>5. ASSUME NEW d \in Dirs, Close(d) \/ Collect(d) PROVE TypeOK'
  <2>1. PICK to \in {"closed", "gone"} : CloseIterator(d, to)
    BY <1>5 DEF Close, Collect
  <2>2. cut' \in [Dirs -> BOOLEAN] /\ UNCHANGED <<takers, loopVars, others>>
    BY <1>0, <1>5 DEF Close, Collect, TypeOK
  <2> QED
    BY <1>0, <2>1, <2>2, CloseIteratorTypes DEF TypeOK, loopVars
<1>6. ASSUME NEW l \in Loops, NEW d \in Dirs, LoopReads(l, d), Usable(d),
             over' \in [Loops -> Dirs \union {NoDir}],
             UNCHANGED <<iter, token, got, granted, others>>
      PROVE  TypeOK'
  <2>1. PICK name \in 0..Entries : /\ NextName(d, l, name)
                                   /\ answer' = [answer EXCEPT ![l] = name]
    BY <1>6 DEF LoopReads
  <2>2. /\ takers' \in [Dirs -> Seq(Loops \union {Program})]
        /\ cut' \in [Dirs -> BOOLEAN]
    BY <1>6, <2>1, NextNameTakes
  <2> QED
    BY <1>0, <1>6, <2>1, <2>2 DEF TypeOK, LoopReads
<1>7. ASSUME NEW l \in Loops, NEW d \in Dirs, StartLoop(l, d) PROVE TypeOK'
  BY <1>0, <1>6, <1>7 DEF StartLoop, TypeOK
<1>8. ASSUME NEW l \in Loops, Resume(l) PROVE TypeOK'
  <2>1. over[l] \in Dirs /\ Usable(over[l])
    BY <1>0, <1>8 DEF IInv, LoopsHaveTheirDir, TypeOK, Resume, Usable
  <2> QED
    BY <1>0, <1>6, <1>8, <2>1 DEF Resume, TypeOK
<1>9. ASSUME NEW l \in Loops, Yield(l) PROVE TypeOK'
  <2>1. answer[l] \in 1..Entries /\ got[l] \in Seq(1..Entries)
    BY <1>0, <1>9 DEF TypeOK, Yield
  <2>2. Append(got[l], answer[l]) \in Seq(1..Entries)
    BY <2>1
  <2>3. got' \in [Loops -> Seq(1..Entries)]
    BY <1>0, <1>9, <2>2 DEF TypeOK, Yield
  <2> QED
    BY <1>0, <1>9, <2>3 DEF TypeOK, Yield
<1>10. ASSUME NEW l \in Loops, EndLoop(l) \/ BreakLoop(l) PROVE TypeOK'
  <2>1. over[l] \in Dirs /\ CloseIterator(over[l], "closed")
    BY <1>0, <1>10 DEF IInv, LoopsHaveTheirDir, TypeOK, EndLoop, BreakLoop, FinallyClose
  <2>2. /\ cut' \in [Dirs -> BOOLEAN]
        /\ loop' \in [Loops -> {"idle", "awaiting", "body", "done"}]
        /\ UNCHANGED <<takers, over, answer, got, others>>
    BY <1>0, <1>10 DEF EndLoop, BreakLoop, FinallyClose, TypeOK
  <2> QED
    BY <1>0, <2>1, <2>2, CloseIteratorTypes DEF TypeOK
<1> QED
  BY <1>1, <1>2, <1>3, <1>4, <1>5, <1>7, <1>8, <1>9, <1>10 DEF Next

-----------------------------------------------------------------------------
(* The steps that hand out no name.                                        *)

(* Opening, closing and collecting a Dir, and the end of a loop, leave the *)
(* names alone: the loops that are under way keep a Dir to read, and a Dir *)
(* that is closed has nothing more to give or was cut short.               *)
LEMMA ClosingKeeps ==
  ASSUME IInv, TypeOK',
         UNCHANGED <<takers, over, answer, got>>,
         \A d \in Dirs : cut[d] => cut'[d],
         \A d \in Dirs : iter'[d] = "closed" => Spent(d)',
         \A l \in Loops : loop'[l] = loop[l] \/ (loop[l] # "idle" /\ loop'[l] = "done" /\ (loop[l] = "awaiting" => answer[l] = 0)),
         \A l \in Loops : loop'[l] \in {"awaiting", "body"} => iter'[over[l]] \in {"open", "closed"}
  PROVE  IInv'
<1>1. LoopsHaveTheirDir' /\ LoopsTakeFromTheirDir' /\ AwaitedWasTakenLast' /\ ClosedIsSpent'
  BY DEF IInv, LoopsHaveTheirDir, LoopsTakeFromTheirDir, AwaitedWasTakenLast,
         ClosedIsSpent, Taken
<1>2. LoopsShareTheNames'
  <2> SUFFICES ASSUME NEW l \in Loops, NEW d \in Dirs, over[l] = d
               PROVE  /\ \A i, j \in DOMAIN got[l] : i < j => got[l][i] < got[l][j]
                      /\ Given(l) = Taken(l, d) \ (IF loop'[l] = "awaiting" THEN {answer[l]} ELSE {})
                      /\ answer[l] = 0 => Len(takers[d]) = Entries \/ cut'[d]
    BY DEF LoopsShareTheNames, Taken, Given, IInv, TypeOK
  <2>1. /\ \A i, j \in DOMAIN got[l] : i < j => got[l][i] < got[l][j]
        /\ Given(l) = Taken(l, d) \ (IF loop[l] = "awaiting" THEN {answer[l]} ELSE {})
        /\ answer[l] = 0 => Len(takers[d]) = Entries \/ cut[d]
    BY DEF IInv, LoopsShareTheNames
  <2>2. 0 \notin Taken(l, d)
    BY DEF IInv, TypeOK, Taken
  <2> QED
    BY <2>1, <2>2
<1> QED
  BY <1>1, <1>2 DEF IInv

(* ... which covers every step on a Dir but read(), and the end of a loop. *)
LEMMA ClosingSteps ==
  ASSUME IInv, TypeOK',
         \/ \E d \in Dirs : Opendir(d) \/ RunOpendir(d) \/ Close(d) \/ Collect(d)
         \/ \E l \in Loops : EndLoop(l) \/ BreakLoop(l)
  PROVE  IInv'
<1>0. TypeOK /\ LoopsHaveTheirDir /\ ClosedIsSpent
  BY DEF IInv
<1>1. ASSUME NEW d \in Dirs, Opendir(d) \/ RunOpendir(d) PROVE IInv'
  <2>1. \A e \in Dirs : iter'[e] = IF e = d THEN iter'[d] ELSE iter[e]
    BY <1>0, <1>1 DEF Opendir, RunOpendir, TypeOK
  <2>2. iter[d] \in {"none", "opening"} /\ iter'[d] \in {"opening", "open", "failed"}
    BY <1>0, <1>1 DEF Opendir, RunOpendir, TypeOK
  <2>3. UNCHANGED <<takers, cut, loopVars>>
    BY <1>1 DEF Opendir, RunOpendir
  <2>4. \A e \in Dirs : iter'[e] = "closed" => Spent(e)'
    BY <1>0, <2>1, <2>2, <2>3 DEF ClosedIsSpent, Spent
  <2>5. \A l \in Loops : loop'[l] \in {"awaiting", "body"} => iter'[over[l]] \in {"open", "closed"}
    <3> SUFFICES ASSUME NEW l \in Loops, loop'[l] \in {"awaiting", "body"}
                 PROVE  iter'[over[l]] \in {"open", "closed"}
      OBVIOUS
    <3>1. iter[over[l]] \in {"open", "closed"} /\ over[l] \in Dirs
      BY <1>0, <2>3 DEF LoopsHaveTheirDir, TypeOK, loopVars
    <3> QED
      BY <2>1, <2>2, <3>1
  <2> QED
    BY <2>3, <2>4, <2>5, ClosingKeeps DEF loopVars
<1>2. ASSUME NEW d \in Dirs, Close(d) PROVE IInv'
  <2>1. /\ iter' = [iter EXCEPT ![d] = "closed"]
        /\ cut' = [cut EXCEPT ![d] = TRUE]
        /\ UNCHANGED <<takers, loopVars>>
    BY <1>2 DEF Close, CloseIterator
  <2> QED
    BY <1>0, <2>1, ClosingKeeps
      DEF ClosedIsSpent, Spent, LoopsHaveTheirDir, TypeOK, loopVars
<1>3. ASSUME NEW d \in Dirs, Collect(d) PROVE IInv'
  <2>1. /\ iter' = [iter EXCEPT ![d] = "gone"]
        /\ UNCHANGED <<takers, cut, loopVars>>
        /\ \A l \in Loops : over[l] = d => loop[l] \in {"idle", "done"}
    BY <1>3 DEF Collect, CloseIterator
  <2> QED
    BY <1>0, <2>1, ClosingKeeps
      DEF ClosedIsSpent, Spent, LoopsHaveTheirDir, TypeOK, loopVars
<1>4. ASSUME NEW l \in Loops, EndLoop(l) PROVE IInv'
  <2>1. /\ iter' = [iter EXCEPT ![over[l]] = "closed"]
        /\ loop' = [loop EXCEPT ![l] = "done"]
        /\ loop[l] = "awaiting" /\ answer[l] = 0
        /\ UNCHANGED <<takers, cut, over, answer, got>>
    BY <1>4 DEF EndLoop, FinallyClose, CloseIterator
  <2>2. over[l] # NoDir /\ Spent(over[l])
    BY <1>0, <2>1 DEF IInv, LoopsHaveTheirDir, LoopsShareTheNames, Spent, TypeOK
  <2> QED
    BY <1>0, <2>1, <2>2, ClosingKeeps DEF ClosedIsSpent, Spent, LoopsHaveTheirDir, TypeOK
<1>5. ASSUME NEW l \in Loops, BreakLoop(l) PROVE IInv'
  <2>1. /\ iter' = [iter EXCEPT ![over[l]] = "closed"]
        /\ loop' = [loop EXCEPT ![l] = "done"]
        /\ cut' = [cut EXCEPT ![over[l]] = TRUE]
        /\ loop[l] = "body"
        /\ UNCHANGED <<takers, over, answer, got>>
    BY <1>5 DEF BreakLoop, FinallyClose, CloseIterator
  <2> QED
    BY <1>0, <2>1, ClosingKeeps DEF ClosedIsSpent, Spent, LoopsHaveTheirDir, TypeOK
<1> QED
  BY <1>1, <1>2, <1>3, <1>4, <1>5

-----------------------------------------------------------------------------
(* The steps that ask a Dir for its next name.                             *)

(* read() of the program takes a name from no loop.                        *)
LEMMA ReadKeeps ==
  ASSUME IInv, TypeOK', NEW d \in Dirs, Read(d)
  PROVE  IInv'
<1> USE ProgramIsNoLoop
<1>1. PICK name \in 0..Entries : NextName(d, Program, name)
  BY DEF Read
<1>2. UNCHANGED <<iter, loopVars>> /\ Usable(d)
  BY DEF Read
<1>3. /\ \A e \in Dirs : Len(takers'[e]) <= Entries
      /\ \A e \in Dirs : Spent(e) => Spent(e)'
  BY <1>1, <1>2, NextNameTakes
<1>4. ASSUME NEW l \in Loops, NEW e \in Dirs PROVE Taken(l, e)' = Taken(l, e)
  <2>1. CASE name = 0
    BY <1>1, <1>2, <2>1, NextNameTakes DEF Taken
  <2>2. CASE name # 0
    <3>1. takers' = [takers EXCEPT ![d] = Append(@, Program)]
      BY <1>1, <1>2, <2>2, NextNameTakes
    <3> QED
      BY <3>1, TakenGrows DEF IInv, Taken
  <2> QED
    BY <2>1, <2>2
<1>5. LoopsHaveTheirDir' /\ LoopsTakeFromTheirDir' /\ AwaitedWasTakenLast' /\ ClosedIsSpent'
  BY <1>2, <1>3, <1>4 DEF IInv, LoopsHaveTheirDir, LoopsTakeFromTheirDir,
     AwaitedWasTakenLast, ClosedIsSpent, loopVars, TypeOK
<1>6. LoopsShareTheNames'
  <2> SUFFICES ASSUME NEW l \in Loops, NEW e \in Dirs, over[l] = e
               PROVE  /\ \A i, j \in DOMAIN got[l] : i < j => got[l][i] < got[l][j]
                      /\ Given(l) = Taken(l, e)' \ (IF loop[l] = "awaiting" THEN {answer[l]} ELSE {})
                      /\ answer[l] = 0 => Spent(e)'
    BY <1>2 DEF LoopsShareTheNames, Given, Spent, loopVars
  <2>1. Taken(l, e)' = Taken(l, e) /\ (Spent(e) => Spent(e)')
    BY <1>3, <1>4
  <2> QED
    BY <2>1 DEF IInv, LoopsShareTheNames, Spent
<1> QED
  BY <1>5, <1>6 DEF IInv

(* A loop that reads was given all it took, and now awaits one more.       *)
LEMMA LoopReadsKeeps ==
  ASSUME IInv, TypeOK', NEW l \in Loops, NEW d \in Dirs, LoopReads(l, d), Usable(d),
         loop[l] \in {"idle", "body"}, over[l] \in {NoDir, d},
         over' = [over EXCEPT ![l] = d], UNCHANGED <<iter, got>>
  PROVE  IInv'
<1> USE EntriesIsNat, NoDirIsNoDir
<1>0. TypeOK /\ LoopsHaveTheirDir /\ LoopsTakeFromTheirDir /\ AwaitedWasTakenLast
      /\ ClosedIsSpent /\ LoopsShareTheNames
  BY DEF IInv
<1>1. PICK name \in 0..Entries : /\ NextName(d, l, name)
                                 /\ answer' = [answer EXCEPT ![l] = name]
  BY DEF LoopReads
<1>2. loop' = [loop EXCEPT ![l] = "awaiting"]
  BY DEF LoopReads
<1>3. /\ \A e \in Dirs : Len(takers'[e]) <= Entries
      /\ \A e \in Dirs : Spent(e) => Spent(e)'
      /\ name = 0 => Spent(d)'
  BY <1>1, NextNameTakes
<1>4. ASSUME NEW m \in Loops, NEW e \in Dirs
      PROVE  Taken(m, e)' = IF m = l /\ e = d /\ name # 0 THEN Taken(m, e) \union {name}
                                                          ELSE Taken(m, e)
  <2>1. CASE name = 0
    BY <1>1, <2>1, NextNameTakes DEF Taken
  <2>2. CASE name # 0
    <3>1. takers' = [takers EXCEPT ![d] = Append(@, l)] /\ name = Len(takers[d]) + 1
      BY <1>1, <2>2, NextNameTakes
    <3>2. Taken(m, e)' = IF e = d /\ m = l THEN Taken(m, e) \union {Len(takers[d]) + 1}
                                           ELSE Taken(m, e)
      <4>1. l \in Loops \union {Program}
        OBVIOUS
      <4>2. Taken(l, d)' = Taken(l, d) \union {Len(takers[d]) + 1}
        BY <1>0, <3>1, <4>1, TakenGrows, Zenon
      <4>3. CASE e # d \/ m # l
        BY <1>0, <3>1, <4>1, <4>3, TakenGrows DEF Taken
      <4> QED
        BY <4>2, <4>3
    <3> QED
      BY <2>2, <3>1, <3>2
  <2> QED
    BY <2>1, <2>2
<1>5. name # 0 => \A i \in Taken(l, d) : i < name
  <2> SUFFICES ASSUME name # 0, NEW i \in Taken(l, d) PROVE i < name
    OBVIOUS
  <2>1. name = Len(takers[d]) + 1
    BY <1>1, NextNameTakes
  <2>2. takers[d] \in Seq(Loops \union {Program}) /\ i \in DOMAIN takers[d]
    BY <1>0 DEF TypeOK, Taken
  <2> QED
    BY <2>1, <2>2
<1>6. Given(l) = Taken(l, d) /\ \A i, j \in DOMAIN got[l] : i < j => got[l][i] < got[l][j]
  <2>1. CASE loop[l] = "idle"
    <3>1. over[l] = NoDir /\ got[l] = <<>>
      BY <1>0, <2>1 DEF LoopsHaveTheirDir
    <3>2. Taken(l, d) = {}
      BY <1>0, <3>1 DEF LoopsTakeFromTheirDir
    <3> QED
      BY <3>1, <3>2 DEF Given
  <2>2. CASE loop[l] = "body"
    <3>1. over[l] = d
      BY <1>0, <2>2 DEF LoopsHaveTheirDir
    <3> QED
      BY <1>0, <2>2, <3>1 DEF LoopsShareTheNames
  <2> QED
    BY <2>1, <2>2
<1>7. LoopsHaveTheirDir'
  BY <1>0, <1>1, <1>2 DEF LoopsHaveTheirDir, Usable, TypeOK
<1>8. LoopsTakeFromTheirDir'
  BY <1>0, <1>4 DEF LoopsTakeFromTheirDir, TypeOK
<1>9. AwaitedWasTakenLast'
  <2> SUFFICES ASSUME NEW m \in Loops, NEW e \in Dirs, over'[m] = e,
                      loop'[m] = "awaiting", answer'[m] # 0
               PROVE  /\ answer'[m] \in Taken(m, e)'
                      /\ \A i \in Taken(m, e)' : i <= answer'[m]
    BY DEF AwaitedWasTakenLast
  <2>1. CASE m = l
    <3>1. answer'[m] = name /\ e = d /\ Taken(m, e)' = Taken(l, d) \union {name}
      BY <1>0, <1>1, <1>4, <2>1 DEF TypeOK
    <3>2. \A i \in Taken(l, d) : i <= name
      BY <1>0, <1>5, <3>1 DEF Taken, TypeOK
    <3> QED
      BY <3>1, <3>2
  <2>2. CASE m # l
    <3>1. loop[m] = "awaiting" /\ answer'[m] = answer[m] /\ over[m] = e
      BY <1>0, <1>1, <1>2, <2>2 DEF TypeOK
    <3>2. Taken(m, e)' = Taken(m, e)
      BY <1>4, <2>2
    <3> QED
      BY <1>0, <3>1, <3>2 DEF AwaitedWasTakenLast
  <2> QED
    BY <2>1, <2>2
<1>10. ClosedIsSpent'
  BY <1>0, <1>3 DEF ClosedIsSpent
<1>11. LoopsShareTheNames'
  <2> SUFFICES ASSUME NEW m \in Loops, NEW e \in Dirs, over'[m] = e
               PROVE  /\ \A i, j \in DOMAIN got[m] : i < j => got[m][i] < got[m][j]
                      /\ Given(m) = Taken(m, e)' \ (IF loop'[m] = "awaiting" THEN {answer'[m]} ELSE {})
                      /\ answer'[m] = 0 => Spent(e)'
    BY DEF LoopsShareTheNames, Given, Spent
  <2>1. CASE m = l
    <3>1. answer'[m] = name /\ e = d /\ loop'[m] = "awaiting"
      BY <1>0, <1>1, <1>2, <2>1 DEF TypeOK
    <3>2. name \notin Taken(l, d)
      BY <1>0, <1>5 DEF Taken, TypeOK
    <3>3. Taken(m, e)' = IF name # 0 THEN Taken(l, d) \union {name} ELSE Taken(l, d)
      BY <1>4, <2>1, <3>1
    <3> QED
      BY <1>3, <1>6, <2>1, <3>1, <3>2, <3>3
  <2>2. CASE m # l
    <3>1. loop'[m] = loop[m] /\ answer'[m] = answer[m] /\ over[m] = e
      BY <1>0, <1>1, <1>2, <2>2 DEF TypeOK
    <3>2. Taken(m, e)' = Taken(m, e) /\ (Spent(e) => Spent(e)')
      BY <1>3, <1>4, <2>2
    <3> QED
      BY <1>0, <3>1, <3>2 DEF LoopsShareTheNames, Spent
  <2> QED
    BY <2>1, <2>2
<1> QED
  BY <1>7, <1>8, <1>9, <1>10, <1>11 DEF IInv

(* The name a loop awaited goes to its body, after all those before it.    *)
LEMMA YieldKeeps ==
  ASSUME IInv, TypeOK', NEW l \in Loops, Yield(l)
  PROVE  IInv'
<1>0. TypeOK /\ LoopsHaveTheirDir /\ LoopsTakeFromTheirDir /\ AwaitedWasTakenLast
      /\ ClosedIsSpent /\ LoopsShareTheNames
  BY DEF IInv
<1>1. /\ loop[l] = "awaiting" /\ answer[l] # 0
      /\ loop' = [loop EXCEPT ![l] = "body"]
      /\ got' = [got EXCEPT ![l] = Append(@, answer[l])]
      /\ UNCHANGED <<iter, takers, cut, over, answer>>
  BY DEF Yield
<1>2. LoopsHaveTheirDir' /\ ClosedIsSpent' /\ LoopsTakeFromTheirDir'
  BY <1>0, <1>1 DEF LoopsHaveTheirDir, ClosedIsSpent, Spent, LoopsTakeFromTheirDir, Taken, TypeOK
<1>3. AwaitedWasTakenLast'
  BY <1>0, <1>1 DEF AwaitedWasTakenLast, Taken, TypeOK
<1>4. LoopsShareTheNames'
  <2> SUFFICES ASSUME NEW m \in Loops, NEW d \in Dirs, over[m] = d
               PROVE  /\ \A i, j \in DOMAIN got'[m] : i < j => got'[m][i] < got'[m][j]
                      /\ Given(m)' = Taken(m, d) \ (IF loop'[m] = "awaiting" THEN {answer[m]} ELSE {})
                      /\ answer[m] = 0 => Len(takers[d]) = Entries \/ cut[d]
    BY <1>1 DEF LoopsShareTheNames, Taken
  <2>1. CASE m # l
    <3>1. got'[m] = got[m] /\ loop'[m] = loop[m]
      BY <1>0, <1>1, <2>1 DEF TypeOK
    <3> QED
      BY <1>0, <3>1 DEF LoopsShareTheNames, Given
  <2>2. CASE m = l
    <3>1. /\ \A i, j \in DOMAIN got[l] : i < j => got[l][i] < got[l][j]
          /\ Given(l) = Taken(l, d) \ {answer[l]}
      BY <1>0, <1>1, <2>2 DEF LoopsShareTheNames
    <3>2. answer[l] \in Taken(l, d) /\ \A i \in Taken(l, d) : i <= answer[l]
      BY <1>0, <1>1, <2>2 DEF AwaitedWasTakenLast
    <3>3. got[l] \in Seq(1..Entries) /\ answer[l] \in Nat
      BY <1>0, EntriesIsNat DEF TypeOK
    <3>4. /\ got'[l] = Append(got[l], answer[l])
          /\ DOMAIN got'[l] = DOMAIN got[l] \union {Len(got[l]) + 1}
          /\ \A i \in DOMAIN got[l] : got'[l][i] = got[l][i] /\ i < Len(got[l]) + 1
          /\ got'[l][Len(got[l]) + 1] = answer[l]
      BY <1>0, <1>1, <3>3 DEF TypeOK
    <3>5. Given(l)' = Given(l) \union {answer[l]}
      BY <3>4 DEF Given
    <3>6. \A i \in DOMAIN got[l] : got[l][i] < answer[l]
      <4> SUFFICES ASSUME NEW i \in DOMAIN got[l] PROVE got[l][i] < answer[l]
        OBVIOUS
      <4>1. got[l][i] \in Given(l)
        BY DEF Given
      <4>2. got[l][i] \in 1..Entries
        BY <3>3, MembersOfSeq, Zenon
      <4> QED
        BY <3>1, <3>2, <3>3, <4>1, <4>2, EntriesIsNat
    <3>7. \A i, j \in DOMAIN got'[l] : i < j => got'[l][i] < got'[l][j]
      <4> SUFFICES ASSUME NEW i \in DOMAIN got'[l], NEW j \in DOMAIN got'[l], i < j
                   PROVE  got'[l][i] < got'[l][j]
        OBVIOUS
      <4>1. i \in DOMAIN got[l]
        BY <3>3, <3>4
      <4>2. CASE j \in DOMAIN got[l]
        BY <3>1, <3>4, <4>1, <4>2
      <4>3. CASE j = Len(got[l]) + 1
        BY <3>4, <3>6, <4>1, <4>3
      <4> QED
        BY <3>4, <4>2, <4>3
    <3>8. loop'[l] = "body"
      BY <1>0, <1>1 DEF TypeOK
    <3> QED
      BY <1>1, <2>2, <3>1, <3>2, <3>5, <3>7, <3>8
  <2> QED
    BY <2>1, <2>2
<1> QED
  BY <1>2, <1>3, <1>4 DEF IInv

-----------------------------------------------------------------------------
(* Every state satisfies the invariant.                                    *)
THEOREM DirInvariant == Spec => []IInv
<1>1. Init => IInv
  <2> SUFFICES ASSUME Init PROVE IInv
    OBVIOUS
  <2>1. TypeOK
    BY EntriesIsNat DEF Init, TypeOK
  <2>2. \A d \in Dirs, l \in Loops : Taken(l, d) = {}
    BY DEF Init, Taken
  <2>3. ClosedIsSpent
    BY EntriesIsNat DEF Init, ClosedIsSpent
  <2> QED
    BY <2>1, <2>2, <2>3, NoDirIsNoDir DEF Init, IInv, LoopsHaveTheirDir,
       LoopsTakeFromTheirDir, AwaitedWasTakenLast, LoopsShareTheNames
<1>2. IInv /\ [Next]_vars => IInv'
  <2> SUFFICES ASSUME IInv, [Next]_vars PROVE IInv'
    OBVIOUS
  <2>0. TypeOK'
    BY TypeStep
  <2>1. CASE UNCHANGED vars
    BY <2>1 DEF IInv, vars, loopVars, TypeOK, LoopsHaveTheirDir, LoopsTakeFromTheirDir,
       AwaitedWasTakenLast, ClosedIsSpent, Spent, LoopsShareTheNames, Taken, Given
  <2>2. CASE \/ \E d \in Dirs : Opendir(d) \/ RunOpendir(d) \/ Close(d) \/ Collect(d)
             \/ \E l \in Loops : EndLoop(l) \/ BreakLoop(l)
    BY <2>0, <2>2, ClosingSteps
  <2>3. ASSUME NEW d \in Dirs, Read(d) PROVE IInv'
    BY <2>0, <2>3, ReadKeeps
  <2>4. ASSUME NEW l \in Loops, NEW d \in Dirs, StartLoop(l, d) PROVE IInv'
    <3>1. over[l] = NoDir
      BY <2>4 DEF StartLoop, IInv, LoopsHaveTheirDir
    <3> QED
      BY <2>0, <2>4, <3>1, LoopReadsKeeps DEF StartLoop
  <2>5. ASSUME NEW l \in Loops, Resume(l) PROVE IInv'
    <3>1. over[l] \in Dirs /\ Usable(over[l])
      BY <2>5 DEF IInv, LoopsHaveTheirDir, TypeOK, Resume, Usable
    <3>2. over' = [over EXCEPT ![l] = over[l]]
      BY <2>5 DEF Resume, IInv, TypeOK
    <3> QED
      BY <2>0, <2>5, <3>1, <3>2, LoopReadsKeeps DEF Resume
  <2>6. ASSUME NEW l \in Loops, Yield(l) PROVE IInv'
    BY <2>0, <2>6, YieldKeeps
  <2> QED
    BY <2>1, <2>2, <2>3, <2>4, <2>5, <2>6 DEF Next
<1> QED
  BY <1>1, <1>2, PTL DEF Spec

(* Loops that share a Dir, through `for await', read() and close() in any  *)
(* order, work on the names in order, each given out once, and skip none   *)
(* before one of them, a call or a failed read cuts the Dir short.         *)
THEOREM LoopsSkipNothing == Spec => []LoopsShareTheNames
<1>1. IInv => LoopsShareTheNames
  BY DEF IInv
<1> QED
  BY <1>1, DirInvariant, PTL

-----------------------------------------------------------------------------
(* Accesses to the URL of a bookmark.                                      *)

Holders(t) == {d \in Dirs : token[d] = t}

(* Accesses under way are those of the others and of the Dirs that were    *)
(* granted one, less those ended in place of a refused one.                *)
AccessesAreCounted ==
  /\ granted <= others + Cardinality(Holders("granted"))
  /\ granted + Cardinality(Holders("overreturned")) >= others + Cardinality(Holders("granted"))

(* An access begins with the iterator and ends when it is closed.          *)
OpenDirsHoldTokens ==
  \A d \in Dirs :
    /\ token[d] \in {"granted", "refused"} => iter[d] = "open"
    /\ iter[d] \in {"none", "opening"} => token[d] = "none"

OverMeansClosed ==
  \A l \in Loops : loop[l] = "done" => over[l] \in Dirs /\ iter[over[l]] \in {"closed", "gone"}

AInv == AccessesAreCounted /\ OpenDirsHoldTokens /\ OverMeansClosed

LEMMA HoldersAreFinite ==
  ASSUME NEW t
  PROVE  IsFiniteSet(Holders(t)) /\ Cardinality(Holders(t)) \in Nat
<1>1. Holders(t) \in SUBSET Dirs
  BY DEF Holders
<1> QED
  BY <1>1, DirsAreFinite, FS_Subset, FS_CardinalityType

(* One Dir gets another token.                                             *)
LEMMA TokenMoves ==
  ASSUME TypeOK, NEW d \in Dirs, NEW u, u # token[d], token' = [token EXCEPT ![d] = u], NEW t
  PROVE  /\ Cardinality(Holders(t)) \in Nat
         /\ Cardinality(Holders(t)') =
              IF t = u THEN Cardinality(Holders(t)) + 1
              ELSE IF t = token[d] THEN Cardinality(Holders(t)) - 1
              ELSE Cardinality(Holders(t))
<1>0. IsFiniteSet(Holders(t)) /\ Cardinality(Holders(t)) \in Nat
  BY HoldersAreFinite
<1>1. token'[d] = u /\ \A e \in Dirs : e # d => token'[e] = token[e]
  BY DEF TypeOK
<1>2. CASE t = u
  <2>1. Holders(t)' = Holders(t) \union {d} /\ d \notin Holders(t)
    BY <1>1, <1>2 DEF Holders
  <2> QED
    BY <1>0, <1>2, <2>1, FS_AddElement
<1>3. CASE t # u /\ t = token[d]
  <2>1. Holders(t)' = Holders(t) \ {d} /\ d \in Holders(t)
    BY <1>1, <1>3 DEF Holders
  <2> QED
    BY <1>0, <1>3, <2>1, FS_RemoveElement
<1>4. CASE t # u /\ t # token[d]
  <2>1. Holders(t)' = Holders(t)
    BY <1>1, <1>4 DEF Holders
  <2> QED
    BY <1>0, <1>4, <2>1
<1> QED
  BY <1>2, <1>3, <1>4

LEMMA CountsUntouched ==
  AccessesAreCounted /\ UNCHANGED <<token, granted, others>> => AccessesAreCounted'
BY DEF AccessesAreCounted, Holders

(* Ending the access a Dir holds keeps the counts.                         *)
LEMMA StopKeepsCounts ==
  ASSUME TypeOK, AccessesAreCounted, NEW d \in Dirs, NEW t, StopAccess(d, t),
         \/ t = token[d]
         \/ t = "refused" /\ token[d] = "none",
         UNCHANGED others
  PROVE  AccessesAreCounted'
<1> DEFINE G == Cardinality(Holders("granted"))
           O == Cardinality(Holders("overreturned"))
<1>1. granted \in Nat /\ others \in Nat /\ G \in Nat /\ O \in Nat
  BY HoldersAreFinite DEF TypeOK
<1>2. granted <= others + G /\ granted + O >= others + G
  BY DEF AccessesAreCounted
<1>3. CASE t = "granted"
  <2>1. token' = [token EXCEPT ![d] = "returned"] /\ OneLess
        /\ token[d] = "granted"
    BY <1>3 DEF StopAccess
  <2>2. Cardinality(Holders("granted")') = G - 1 /\ Cardinality(Holders("overreturned")') = O
    BY <2>1, TokenMoves, ZenonT(40)
  <2>3. granted' = IF granted = 0 THEN 0 ELSE granted - 1
    BY <2>1 DEF OneLess
  <2>4. G - 1 \in Nat
    <3>1. d \in Holders("granted") /\ IsFiniteSet(Holders("granted"))
      BY <2>1, HoldersAreFinite DEF Holders
    <3>2. G # 0
      BY <3>1, FS_EmptySet
    <3> HIDE DEF G
    <3> QED
      BY <1>1, <3>2
  <2> HIDE DEF G, O
  <2>5. granted' <= others + (G - 1) /\ granted' + O >= others + (G - 1)
    BY <1>1, <1>2, <2>3, <2>4
  <2> QED
    BY <2>2, <2>5 DEF AccessesAreCounted
<1>4. CASE t = "refused"
  <2>1. token' = [token EXCEPT ![d] = "overreturned"] /\ OneLess
        /\ token[d] \in {"refused", "none"}
    BY <1>4 DEF StopAccess
  <2>2. Cardinality(Holders("granted")') = G /\ Cardinality(Holders("overreturned")') = O + 1
    BY <2>1, TokenMoves, ZenonT(40)
  <2>3. granted' = IF granted = 0 THEN 0 ELSE granted - 1
    BY <2>1 DEF OneLess
  <2> HIDE DEF G, O
  <2>4. granted' <= others + G /\ granted' + (O + 1) >= others + G
    BY <1>1, <1>2, <2>3
  <2> QED
    BY <2>2, <2>4 DEF AccessesAreCounted
<1>5. CASE t \notin {"granted", "refused"}
  BY <1>5, CountsUntouched DEF StopAccess
<1> QED
  BY <1>3, <1>4, <1>5

(* A step that only reads or yields has no part in accesses.               *)
LEMMA ReadingSteps ==
  ASSUME AInv, TypeOK, LoopsHaveTheirDir, UNCHANGED <<iter, token, granted, others>>,
         \A l \in Loops : loop'[l] = "done" => loop[l] = "done",
         \A l \in Loops : loop[l] = "done" => over'[l] = over[l]
  PROVE  AInv'
<1>1. AccessesAreCounted'
  BY CountsUntouched DEF AInv
<1> QED
  BY <1>1 DEF AInv, OpenDirsHoldTokens, OverMeansClosed

(* Closing an iterator ends the access it holds, once.                     *)
LEMMA ClosingEndsAccess ==
  ASSUME AInv, TypeOK, NEW d \in Dirs, NEW to \in {"closed", "gone"}, CloseIterator(d, to),
         iter[d] \in {"open", "closed"},
         UNCHANGED <<over, others>>,
         \A l \in Loops : loop'[l] = "done" => loop[l] = "done" \/ over[l] = d
  PROVE  AInv'
<1>1. iter' = [iter EXCEPT ![d] = to] /\ StopAccess(d, token[d])
  BY DEF CloseIterator
<1>2. AccessesAreCounted'
  BY <1>1, StopKeepsCounts DEF AInv
<1>3. /\ token'[d] \notin {"granted", "refused"}
      /\ \A e \in Dirs : e # d => token'[e] = token[e] /\ iter'[e] = iter[e]
      /\ iter'[d] = to
  BY <1>1 DEF StopAccess, TypeOK
<1>4. OpenDirsHoldTokens'
  BY <1>3 DEF AInv, OpenDirsHoldTokens
<1>5. OverMeansClosed'
  BY <1>3 DEF AInv, OverMeansClosed
<1> QED
  BY <1>2, <1>4, <1>5 DEF AInv

LEMMA AccessStep == IInv /\ AInv /\ [Next]_vars => AInv'
<1> SUFFICES ASSUME TypeOK, LoopsHaveTheirDir, AInv, [Next]_vars PROVE AInv'
  BY DEF IInv
<1> USE NoDirIsNoDir
<1>1. CASE UNCHANGED vars
  BY <1>1, ReadingSteps DEF vars, loopVars
<1>2. ASSUME NEW d \in Dirs, Opendir(d) PROVE AInv'
  <2>1. iter[d] = "none" /\ iter' = [iter EXCEPT ![d] = "opening"]
        /\ UNCHANGED <<token, loop, over, granted, others>>
    BY <1>2 DEF Opendir, loopVars
  <2>2. AccessesAreCounted'
    BY <2>1, CountsUntouched DEF AInv
  <2> QED
    BY <2>1, <2>2 DEF AInv, OpenDirsHoldTokens, OverMeansClosed, TypeOK
<1>3. ASSUME NEW d \in Dirs, RunOpendir(d) PROVE AInv'
  <2>1. iter[d] = "opening" /\ token[d] = "none" /\ UNCHANGED <<loop, over, others>>
    BY <1>3 DEF RunOpendir, AInv, OpenDirsHoldTokens, loopVars
  <2>2. CASE iter' = [iter EXCEPT ![d] = "failed"]
    <3>1. /\ token'[d] \notin {"granted", "refused"}
          /\ \A e \in Dirs : e # d => token'[e] = token[e] /\ iter'[e] = iter[e]
          /\ iter'[d] = "failed"
      BY <1>3, <2>1, <2>2 DEF RunOpendir, StopAccess, TypeOK
    <3>2. AccessesAreCounted'
      <4>1. CASE UNCHANGED <<token, granted>>
        BY <2>1, <4>1, CountsUntouched DEF AInv
      <4>2. CASE token' = [token EXCEPT ![d] = "returned"] /\ UNCHANGED granted
        <5>1. /\ Cardinality(Holders("granted")') = Cardinality(Holders("granted"))
              /\ Cardinality(Holders("overreturned")') = Cardinality(Holders("overreturned"))
          BY <2>1, <4>2, TokenMoves, ZenonT(40)
        <5> QED
          BY <2>1, <4>2, <5>1 DEF AInv, AccessesAreCounted
      <4>3. CASE StopAccess(d, "refused")
        BY <2>1, <4>3, StopKeepsCounts DEF AInv
      <4> QED
        BY <1>3, <2>2, <4>1, <4>2, <4>3, <2>1 DEF RunOpendir, TypeOK
    <3> QED
      BY <2>1, <3>1, <3>2 DEF AInv, OpenDirsHoldTokens, OverMeansClosed
  <2>3. ASSUME NEW t \in {"none", "granted", "refused"},
               iter' = [iter EXCEPT ![d] = "open"], token' = [token EXCEPT ![d] = t],
               granted' = IF t = "granted" THEN granted + 1 ELSE granted
        PROVE  AInv'
    <3>1. OpenDirsHoldTokens' /\ OverMeansClosed'
      BY <2>1, <2>3 DEF AInv, OpenDirsHoldTokens, OverMeansClosed, TypeOK
    <3>2. CASE t = "none"
      <4>1. UNCHANGED <<token, granted, others>>
        BY <2>1, <2>3, <3>2 DEF TypeOK
      <4> QED
        BY <3>1, <4>1, CountsUntouched DEF AInv
    <3>3. CASE t # "none"
      <4> DEFINE G == Cardinality(Holders("granted"))
                 O == Cardinality(Holders("overreturned"))
      <4>1. granted \in Nat /\ others \in Nat /\ G \in Nat /\ O \in Nat
        BY HoldersAreFinite DEF TypeOK
      <4>2. granted <= others + G /\ granted + O >= others + G
        BY DEF AInv, AccessesAreCounted
      <4>3. /\ Cardinality(Holders("granted")') = IF t = "granted" THEN G + 1 ELSE G
            /\ Cardinality(Holders("overreturned")') = O
        BY <2>1, <2>3, <3>3, TokenMoves
      <4> HIDE DEF G, O
      <4>4. AccessesAreCounted'
        BY <2>1, <2>3, <4>1, <4>2, <4>3 DEF AccessesAreCounted
      <4> QED
        BY <3>1, <4>4 DEF AInv
    <3> QED
      BY <3>2, <3>3
  <2> QED
    BY <1>3, <2>2, <2>3 DEF RunOpendir
<1>4. ASSUME NEW d \in Dirs, Close(d) \/ Collect(d) PROVE AInv'
  BY <1>4, ClosingEndsAccess DEF Close, Collect, Usable, loopVars
<1>5. ASSUME NEW l \in Loops, EndLoop(l) \/ BreakLoop(l) PROVE AInv'
  <2>1. /\ CloseIterator(over[l], "closed") /\ loop' = [loop EXCEPT ![l] = "done"]
        /\ loop[l] \in {"awaiting", "body"} /\ UNCHANGED <<over, others>>
    BY <1>5 DEF EndLoop, BreakLoop, FinallyClose
  <2>2. PICK d \in Dirs : d = over[l] /\ iter[d] \in {"open", "closed"}
    BY <2>1 DEF LoopsHaveTheirDir, TypeOK
  <2>3. \A m \in Loops : loop'[m] = "done" => loop[m] = "done" \/ over[m] = d
    BY <2>1, <2>2 DEF TypeOK
  <2> QED
    BY <2>1, <2>2, <2>3, ClosingEndsAccess
<1>6. ASSUME NEW d \in Dirs, Read(d) PROVE AInv'
  BY <1>6, ReadingSteps DEF Read, loopVars
<1>7. ASSUME NEW l \in Loops, NEW d \in Dirs, StartLoop(l, d) PROVE AInv'
  BY <1>7, ReadingSteps DEF StartLoop, LoopReads, TypeOK
<1>8. ASSUME NEW l \in Loops, Yield(l) \/ Resume(l) PROVE AInv'
  BY <1>8, ReadingSteps DEF Yield, Resume, LoopReads, TypeOK
<1> QED
  BY <1>1, <1>2, <1>3, <1>4, <1>5, <1>6, <1>7, <1>8 DEF Next

LEMMA AccessStart == Init => AInv
<1> SUFFICES ASSUME Init PROVE AInv
  OBVIOUS
<1>1. Holders("granted") = {} /\ Holders("overreturned") = {}
  BY DEF Init, Holders
<1>2. AccessesAreCounted
  <2>1. Cardinality(Holders("granted")) = 0 /\ Cardinality(Holders("overreturned")) = 0
    BY <1>1, FS_EmptySet
  <2>2. granted = others /\ others \in Nat
    BY DEF Init
  <2> QED
    BY <2>1, <2>2 DEF AccessesAreCounted
<1> QED
  BY <1>2 DEF Init, AInv, OpenDirsHoldTokens, OverMeansClosed

(* For any number of Dirs and of loops over them: a loop that is over has  *)
(* closed its Dir, a closed Dir holds no access, and the accesses under    *)
(* way are those begun and not yet ended, except where ending a refused    *)
(* one took one away.                                                      *)
THEOREM DirsGiveBackAccess == Spec => []ClosedDirsGiveBackAccess
<1>1. AInv => ClosedDirsGiveBackAccess
  BY DEF AInv, AccessesAreCounted, OpenDirsHoldTokens, OverMeansClosed, Holders,
         ClosedDirsGiveBackAccess
<1> QED
  BY <1>1, DirInvariant, AccessStart, AccessStep, PTL DEF Spec
=============================================================================
