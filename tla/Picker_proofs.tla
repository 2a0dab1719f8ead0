---------------------------- MODULE Picker_proofs -----------------------------
(***************************************************************************)
(* Any number of picks on two threads: how often a promise is settled,     *)
(* what a pick that is alone gets, and that imports keep their files.      *)
(***************************************************************************)
EXTENDS Picker, TLAPS

-----------------------------------------------------------------------------
(* The invariant.                                                          *)

(* Where the picks under way are: called, shown or handled.                *)
PicksInHand ==
  /\ calling.pick = NoPick <=> calling.at = "none"
  /\ calling.pick # NoPick => calling.pick \in active \ shown
  /\ shown \subseteq active
  /\ handling.of = NoPick => handling = NoResult
  /\ handling.of # NoPick => handling.of \in active \ shown /\ handling.of # calling.pick
  /\ \A p \in active : kind[p] # "none"

(* Two picks under way overlap.                                            *)
Together == \A p, q \in active : p # q => p \in overlapped

(* A pointer is in the field of its kind, and a result takes it from the   *)
(* field of its own; once the fields are cleared, nobody else finds it.    *)
PointersHaveKinds ==
  /\ \A k \in Kinds : pending[k] # NoPick => kind[pending[k]] = k
  /\ handling.promise # NoPick =>
       /\ kind[handling.promise] = kind[handling.of]
       /\ handling.cleared => \A k \in Kinds : pending[k] # handling.promise

(* A pointer that was freed can be freed again only by the result of       *)
(* another pick that has already taken it, or by the call it belongs to.   *)
FreedPointers ==
  \A p \in Picks :
    /\ settled[p] # <<>> =>
         /\ kind[p] # "none"
         /\ \A k \in Kinds : pending[k] # p
         /\ handling.promise = p => Len(settled[p]) = 1 /\ p \in overlapped \intersect startFailed
         /\ calling.pick = p =>
              Len(settled[p]) = 1 /\ p \in overlapped /\ handling.promise # p

(* What a pick that is alone finds in the fields and in its result.        *)
LoneFields ==
  /\ \A k \in Kinds, q \in active :
       pending[k] \in Picks \ overlapped /\ kind[q] = k => q = pending[k]
  /\ \A p \in active \ overlapped :
       kind[p] = "files" /\ ~(calling.pick = p /\ calling.at = "mode")
         => pendingMode = mode[p]
  /\ handling.promise \in Picks \ overlapped =>
       /\ handling.promise = handling.of
       /\ kind[handling.of] = "files" => handling.mode = mode[handling.of]

IInv ==
  /\ TypeOK
  /\ PicksInHand
  /\ Together
  /\ PointersHaveKinds
  /\ FreedPointers
  /\ OnlyFailedStartsSettleTwice

LInv == LoneFields /\ LonePicksGetTheirOwn

(* The files of a result being handled are where it says, as are those of  *)
(* the answers.                                                            *)
Kept(f, in) == f.at # Original => in[f.at] = f.item
AllKept(files, in) == \A j \in DOMAIN files : Kept(files[j], in)

CInv ==
  /\ AllKept(handling.got, cache)
  /\ \A p \in Picks : \A i \in DOMAIN settled[p] : AllKept(settled[p][i].files, cache)

-----------------------------------------------------------------------------
(* Sequences and how promises are settled.                                 *)

LEMMA Appended ==
  ASSUME NEW S, NEW q \in Seq(S), NEW e \in S
  PROVE  /\ Append(q, e) \in Seq(S)
         /\ Append(q, e) # <<>> /\ Len(Append(q, e)) = Len(q) + 1
         /\ DOMAIN Append(q, e) = DOMAIN q \union {Len(q) + 1}
         /\ Len(q) + 1 \notin DOMAIN q
         /\ \A i \in DOMAIN q : Append(q, e)[i] = q[i]
         /\ Append(q, e)[Len(q) + 1] = e
  OBVIOUS

LEMMA NothingYet ==
  ASSUME NEW S
  PROVE  <<>> \in Seq(S) /\ Len(<<>>) = 0 /\ \A q \in Seq(S) : q # <<>> => Len(q) >= 1
  OBVIOUS

(* One answer more for one promise.                                        *)
LEMMA AnswerAdds ==
  ASSUME TypeOK, NEW p \in Picks, NEW by \in Picks, NEW ok \in BOOLEAN,
         NEW m \in Modes, NEW files \in Seq(Placed),
         settled' = Answer(p, by, ok, m, files)
  PROVE  /\ settled' \in [Picks -> Seq(Answers)]
         /\ settled'[p] # <<>> /\ Len(settled'[p]) = Len(settled[p]) + 1
         /\ DOMAIN settled'[p] = DOMAIN settled[p] \union {Len(settled[p]) + 1}
         /\ \A i \in DOMAIN settled[p] : settled'[p][i] = settled[p][i]
         /\ settled'[p][Len(settled[p]) + 1] = [by |-> by, ok |-> ok, mode |-> m, files |-> files]
         /\ \A q \in Picks : q # p => settled'[q] = settled[q]
<1> DEFINE a == [by |-> by, ok |-> ok, mode |-> m, files |-> files]
<1>1. a \in Answers
  BY DEF Answers
<1>2. settled \in [Picks -> Seq(Answers)] /\ settled[p] \in Seq(Answers)
  BY DEF TypeOK
<1>3. settled' = [settled EXCEPT ![p] = Append(@, a)]
  BY DEF Answer
<1> HIDE DEF a
<1>4. /\ Append(settled[p], a) \in Seq(Answers)
      /\ settled'[p] = Append(settled[p], a)
      /\ \A q \in Picks : q # p => settled'[q] = settled[q]
  BY <1>1, <1>2, <1>3, Appended
<1>5. settled' \in [Picks -> Seq(Answers)]
  BY <1>2, <1>3, <1>4
<1> QED
  BY <1>1, <1>2, <1>4, <1>5, Appended DEF a

(* Whatever is true of the answers so far and of the new one is true.      *)
LEMMA AnswersAre ==
  ASSUME TypeOK, NEW p \in Picks, NEW by \in Picks, NEW ok \in BOOLEAN,
         NEW m \in Modes, NEW files \in Seq(Placed),
         settled' = Answer(p, by, ok, m, files)
  PROVE  \A q \in Picks : \A i \in DOMAIN settled'[q] :
           \/ i \in DOMAIN settled[q] /\ settled'[q][i] = settled[q][i]
           \/ /\ q = p /\ settled'[q][i].by = by
              /\ settled'[q][i].mode = m /\ settled'[q][i].files = files
<1> DEFINE a == [by |-> by, ok |-> ok, mode |-> m, files |-> files]
           last == Len(settled[p]) + 1
<1>1. /\ DOMAIN settled'[p] = DOMAIN settled[p] \union {last}
      /\ \A i \in DOMAIN settled[p] : settled'[p][i] = settled[p][i]
      /\ settled'[p][last] = a
      /\ \A q \in Picks : q # p => settled'[q] = settled[q]
  BY AnswerAdds
<1>2. a.by = by /\ a.mode = m /\ a.files = files
  OBVIOUS
<1> HIDE DEF a, last
<1> QED
  BY <1>1, <1>2

LEMMA RefusalsAre ==
  ASSUME TypeOK, NEW p \in Picks, mode'[p] \in Modes,
         settled' = Answer(p, p, FALSE, mode'[p], <<>>)
  PROVE  \A q \in Picks : \A i \in DOMAIN settled'[q] :
           \/ i \in DOMAIN settled[q] /\ settled'[q][i] = settled[q][i]
           \/ /\ q = p /\ settled'[q][i].by = p
              /\ settled'[q][i].mode = mode'[p] /\ settled'[q][i].files = <<>>
<1> DEFINE a == [by |-> p, ok |-> FALSE, mode |-> mode'[p], files |-> <<>>]
           last == Len(settled[p]) + 1
<1>0. /\ <<>> \in Seq(Placed) /\ FALSE \in BOOLEAN /\ mode'[p] \in Modes
      /\ settled' = Answer(p, p, FALSE, mode'[p], <<>>)
  BY NothingYet
<1>1. /\ DOMAIN settled'[p] = DOMAIN settled[p] \union {last}
      /\ \A i \in DOMAIN settled[p] : settled'[p][i] = settled[p][i]
      /\ settled'[p][last] = a
      /\ \A q \in Picks : q # p => settled'[q] = settled[q]
  BY <1>0, AnswerAdds, ZenonT(40)
<1>2. a.by = p /\ a.mode = mode'[p] /\ a.files = <<>>
  OBVIOUS
<1> HIDE DEF a, last
<1> QED
  BY <1>1, <1>2

(* A result that is being handled has a pick.                              *)
LEMMA ClearedHasPick ==
  ASSUME TypeOK, PicksInHand, handling.cleared \/ handling.promise # NoPick \/ handling.of # NoPick
  PROVE  handling.of \in Picks
BY NoPickIsNoPick DEF TypeOK, PicksInHand, NoResult

-----------------------------------------------------------------------------
(* Types.                                                                  *)

(* The types of the result and of the sets, by name.                       *)
Results ==
  [of : Picks \union {NoPick}, promise : Picks \union {NoPick}, mode : Modes,
   ok : BOOLEAN, todo : 0..MaxItems, got : Seq(Placed), cleared : BOOLEAN]

LEMMA NamedTypes ==
  /\ TypeOK => /\ handling \in Results
               /\ active \subseteq Picks /\ overlapped \subseteq Picks /\ startFailed \subseteq Picks
  /\ /\ kind' \in [Picks -> Kinds \union {"none"}] /\ mode' \in [Picks -> Modes]
     /\ calling' \in [pick : Picks \union {NoPick}, at : {"none", "mode", "listen", "start"}]
     /\ pending' \in [Kinds -> Picks \union {NoPick}] /\ pendingMode' \in Modes
     /\ listening' \in BOOLEAN /\ shown' \subseteq Picks
     /\ handling' \in Results
     /\ settled' \in [Picks -> Seq(Answers)]
     /\ cache' \in [Slots -> Items \union {Nothing, Partial}]
     /\ active' \subseteq Picks /\ overlapped' \subseteq Picks /\ startFailed' \subseteq Picks
     => TypeOK'
BY DEF TypeOK, Results

(* What is not typed again by every action.                                *)
LEMMA CallTypes ==
  ASSUME TypeOK, NEW p \in Picks, NEW k \in Kinds, NEW m \in Modes, Called(p, k, m)
  PROVE  /\ kind' \in [Picks -> Kinds \union {"none"}] /\ kind'[p] = k /\ kind[p] = "none"
         /\ mode' \in [Picks -> Modes] /\ mode'[p] = m
         /\ \A q \in Picks : q # p => kind'[q] = kind[q] /\ mode'[q] = mode[q]
BY DEF Called, TypeOK

LEMMA TypeStep == TypeOK /\ PicksInHand /\ [Next]_vars => TypeOK'
<1> SUFFICES ASSUME TypeOK, PicksInHand, [Next]_vars PROVE TypeOK'
  OBVIOUS
<1> USE DEF threads, fields, history
<1>1. CASE UNCHANGED vars
  BY <1>1 DEF TypeOK, vars
<1>2. ASSUME NEW p \in Picks, NEW k \in Kinds, NEW m \in Modes, PickRefused(p, k, m)
      PROVE TypeOK'
  <2>1. mode'[p] \in Modes /\ kind' \in [Picks -> Kinds \union {"none"}] /\ mode' \in [Picks -> Modes]
    BY <1>2, CallTypes DEF PickRefused
  <2>2. settled' = Answer(p, p, FALSE, mode'[p], <<>>)
    BY <1>2 DEF PickRefused, Refusal
  <2>3. settled' \in [Picks -> Seq(Answers)]
    BY <2>1, <2>2, AnswerAdds, NothingYet
  <2> QED
    BY <1>2, <2>1, <2>3 DEF PickRefused, TypeOK
<1>3. ASSUME NEW p \in Picks, NEW k \in Kinds, NEW m \in Modes, PickStored(p, k, m)
      PROVE TypeOK'
  BY <1>3, CallTypes DEF PickStored, TypeOK
<1>4. CASE StoreMode
  BY <1>4, NoPickIsNoPick DEF StoreMode, TypeOK, PicksInHand
<1>5. CASE AddListener
  BY <1>5 DEF AddListener, TypeOK
<1>6. CASE StartActivity
  BY <1>6 DEF StartActivity, TypeOK, PicksInHand, NoCall
<1>7. CASE StartFails
  <2>1. calling.pick \in Picks /\ mode'[calling.pick] \in Modes
    BY <1>7 DEF StartFails, TypeOK, PicksInHand
  <2>2. settled' = Answer(calling.pick, calling.pick, FALSE, mode'[calling.pick], <<>>)
    BY <1>7 DEF StartFails, Refusal
  <2>3. settled' \in [Picks -> Seq(Answers)]
    BY <2>1, <2>2, AnswerAdds, NothingYet
  <2>4. active' \subseteq Picks /\ startFailed' \subseteq Picks /\ overlapped' \subseteq Picks
    BY <1>7, <2>1, NamedTypes DEF StartFails
  <2>5. calling' \in [pick : Picks \union {NoPick}, at : {"none", "mode", "listen", "start"}]
        /\ handling' \in Results
    BY <1>7, NamedTypes DEF StartFails, NoCall
  <2>6. /\ pending' \in [Kinds -> Picks \union {NoPick}] /\ pendingMode' \in Modes
        /\ listening' \in BOOLEAN /\ shown' \subseteq Picks
        /\ kind' \in [Picks -> Kinds \union {"none"}] /\ mode' \in [Picks -> Modes]
        /\ cache' \in [Slots -> Items \union {Nothing, Partial}]
    BY <1>7 DEF StartFails, TypeOK
  <2> QED
    BY <2>3, <2>4, <2>5, <2>6, NamedTypes
<1>8. ASSUME NEW p \in Picks, ResultArrives(p) PROVE TypeOK'
  <2>1. handling' \in Results
    <3>1. CASE listening
      <4>1. PICK ok \in BOOLEAN, n \in 0..MaxItems :
              /\ ~ok \/ kind[p] = "dir" \/ pending[kind[p]] = NoPick => n = 0
              /\ handling' = [NoResult EXCEPT !.of = p, !.promise = pending[kind[p]],
                                 !.mode = pendingMode, !.ok = ok, !.todo = n]
        BY <1>8, <3>1 DEF ResultArrives
      <4>2. kind[p] \in Kinds
        BY <1>8 DEF ResultArrives, PicksInHand, TypeOK
      <4>3. <<>> \in Seq(Placed)
        BY NothingYet
      <4> QED
        BY <4>1, <4>2, <4>3 DEF TypeOK, NoResult, Results
    <3>2. CASE ~listening
      BY <1>8, <3>2, NamedTypes DEF ResultArrives
    <3> QED
      BY <3>1, <3>2
  <2>2. shown' \subseteq Picks /\ active' \subseteq Picks
    <3>1. shown' \subseteq shown /\ active' \subseteq active
      BY <1>8 DEF ResultArrives
    <3>2. shown \subseteq Picks /\ active \subseteq Picks
      BY NamedTypes DEF TypeOK
    <3> QED
      BY <3>1, <3>2
  <2>3. /\ pending' \in [Kinds -> Picks \union {NoPick}] /\ pendingMode' \in Modes
        /\ listening' \in BOOLEAN
        /\ calling' \in [pick : Picks \union {NoPick}, at : {"none", "mode", "listen", "start"}]
        /\ kind' \in [Picks -> Kinds \union {"none"}] /\ mode' \in [Picks -> Modes]
        /\ settled' \in [Picks -> Seq(Answers)]
        /\ cache' \in [Slots -> Items \union {Nothing, Partial}]
    BY <1>8 DEF ResultArrives, TypeOK
  <2>4. overlapped' \subseteq Picks /\ startFailed' \subseteq Picks
    BY <1>8, NamedTypes DEF ResultArrives
  <2> QED
    BY <2>1, <2>2, <2>3, <2>4, NamedTypes
<1>9. CASE ClearPending
  BY <1>9 DEF ClearPending, TypeOK
<1>10. CASE ProcessPickedFile
  <2>1. handling.of \in Picks
    BY <1>10, ClearedHasPick DEF ProcessPickedFile
  <2>2. handling.got \in Seq(Placed) /\ Len(handling.got) + 1 \in 1..MaxItems
    BY <1>10, ItemsAreCounted DEF ProcessPickedFile, TypeOK
  <2>3. \A at \in Slots \union {Original} : Picked(at) \in Placed /\ Picked(at).item \in Items
    BY <2>1, <2>2 DEF Picked, Placed, Items
  <2>4. \A at \in Slots \union {Original} : Append(handling.got, Picked(at)) \in Seq(Placed)
    BY <2>2, <2>3, Appended
  <2>5. \E at \in Slots \union {Original} :
          handling' = [handling EXCEPT !.got = Append(handling.got, Picked(at))]
    BY <1>10 DEF ProcessPickedFile, Copy
  <2>6. cache' \in [Slots -> Items \union {Nothing, Partial}]
    <3>1. cache \in [Slots -> Items \union {Nothing, Partial}]
      BY DEF TypeOK
    <3>2. CASE UNCHANGED cache
      BY <3>1, <3>2
    <3>3. ASSUME NEW s \in Slots, cache' = [cache EXCEPT ![s] = Partial]
          PROVE  cache' \in [Slots -> Items \union {Nothing, Partial}]
      BY <3>1, <3>3
    <3>4. ASSUME NEW s \in Slots, cache' = [cache EXCEPT ![s] = Picked(s).item]
          PROVE  cache' \in [Slots -> Items \union {Nothing, Partial}]
      BY <2>3, <3>1, <3>4
    <3> QED
      BY <1>10, <3>2, <3>3, <3>4 DEF ProcessPickedFile, Copy
  <2>7. handling' \in Results
    <3>1. PICK at \in Slots \union {Original} :
            handling' = [handling EXCEPT !.got = Append(handling.got, Picked(at))]
      BY <2>5
    <3>2. Append(handling.got, Picked(at)) \in Seq(Placed)
      BY <2>4
    <3>3. handling \in Results
      BY NamedTypes
    <3> HIDE DEF Picked
    <3> QED
      BY <3>1, <3>2, <3>3 DEF Results
  <2> QED
    BY <1>10, <2>6, <2>7 DEF ProcessPickedFile, TypeOK, Results
<1>11. CASE Settle
  <2>1. handling.of \in Picks
    BY <1>11, ClearedHasPick DEF Settle
  <2>2. settled' \in [Picks -> Seq(Answers)]
    <3>1. CASE handling.promise = NoPick
      BY <1>11, <3>1 DEF Settle, TypeOK
    <3>2. CASE handling.promise # NoPick
      <4>1. settled' = Answer(handling.promise, handling.of, handling.ok, handling.mode, handling.got)
        BY <1>11, <3>2 DEF Settle
      <4>2. handling.promise \in Picks /\ handling.ok \in BOOLEAN /\ handling.mode \in Modes
            /\ handling.got \in Seq(Placed)
        BY <3>2 DEF TypeOK
      <4> QED
        BY <2>1, <4>1, <4>2, AnswerAdds
    <3> QED
      BY <3>1, <3>2
  <2>3. NoResult \in Results
    BY NothingYet, ItemsAreCounted DEF NoResult, Modes, Results
  <2> QED
    BY <1>11, <2>2, <2>3 DEF Settle, TypeOK, Results
<1> QED
  BY <1>1, <1>2, <1>3, <1>4, <1>5, <1>6, <1>7, <1>8, <1>9, <1>10, <1>11 DEF Next, JavaScript, UiThread

-----------------------------------------------------------------------------
(* Which picks are under way.                                              *)

LEMMA HandStep == TypeOK /\ PicksInHand /\ Together /\ [Next]_vars => PicksInHand' /\ Together'
<1> SUFFICES ASSUME TypeOK, PicksInHand, Together, [Next]_vars PROVE PicksInHand' /\ Together'
  OBVIOUS
<1> USE NoPickIsNoPick DEF threads, fields, history
<1>1. CASE UNCHANGED vars
  BY <1>1 DEF PicksInHand, Together, vars
<1>2. ASSUME NEW p \in Picks, NEW k \in Kinds, NEW m \in Modes, PickRefused(p, k, m)
      PROVE PicksInHand' /\ Together'
  <2>1. UNCHANGED <<calling, handling, shown, active, overlapped>>
    BY <1>2 DEF PickRefused
  <2>2. \A q \in active : kind'[q] # "none"
    BY <1>2, CallTypes, NamedTypes DEF PickRefused, PicksInHand, Kinds
  <2> QED
    BY <2>1, <2>2 DEF PicksInHand, Together
<1>3. ASSUME NEW p \in Picks, NEW k \in Kinds, NEW m \in Modes, PickStored(p, k, m)
      PROVE PicksInHand' /\ Together'
  <2>1. kind[p] = "none" /\ p \notin active
    BY <1>3, CallTypes DEF PickStored, PicksInHand
  <2>2. /\ calling'.pick = p /\ calling'.at # "none"
        /\ active' = active \union {p} /\ UNCHANGED <<handling, shown>>
    BY <1>3 DEF PickStored
  <2>3. \A q \in active' : kind'[q] # "none"
    BY <1>3, <2>2, CallTypes, NamedTypes DEF PickStored, PicksInHand, Kinds
  <2>4. Together'
    BY <1>3, <2>1 DEF PickStored, Together
  <2> QED
    BY <2>1, <2>2, <2>3, <2>4 DEF PicksInHand
<1>4. CASE StoreMode
  BY <1>4 DEF StoreMode, PicksInHand, Together, TypeOK
<1>5. CASE AddListener
  BY <1>5 DEF AddListener, PicksInHand, Together, TypeOK
<1>6. CASE StartActivity
  BY <1>6 DEF StartActivity, PicksInHand, Together, TypeOK, NoCall
<1>7. CASE StartFails
  <2>1. /\ calling' = NoCall /\ active' = active \ {calling.pick}
        /\ UNCHANGED <<kind, handling, shown, overlapped>> /\ calling.pick # NoPick
    BY <1>7 DEF StartFails, PicksInHand
  <2> QED
    BY <2>1 DEF PicksInHand, Together, NoCall
<1>8. ASSUME NEW p \in Picks, ResultArrives(p) PROVE PicksInHand' /\ Together'
  <2>1. /\ p \in shown /\ p \in active /\ p # calling.pick /\ handling = NoResult
        /\ shown' = shown \ {p} /\ UNCHANGED <<kind, calling, overlapped>>
    BY <1>8 DEF ResultArrives, PicksInHand
  <2>2. CASE listening
    <3>1. handling'.of = p /\ UNCHANGED active
      BY <1>8, <2>2 DEF ResultArrives, NoResult
    <3> QED
      BY <2>1, <3>1 DEF PicksInHand, Together
  <2>3. CASE ~listening
    <3>1. active' = active \ {p} /\ UNCHANGED handling
      BY <1>8, <2>3 DEF ResultArrives
    <3> QED
      BY <2>1, <3>1 DEF PicksInHand, Together, NoResult
  <2> QED
    BY <2>2, <2>3
<1>9. CASE ClearPending
  BY <1>9 DEF ClearPending, PicksInHand, Together, TypeOK
<1>10. CASE ProcessPickedFile
  <2>1. handling.of \in Picks
    BY <1>10, ClearedHasPick DEF ProcessPickedFile
  <2>2. handling'.of = handling.of /\ UNCHANGED <<kind, calling, shown, active, overlapped>>
    BY <1>10 DEF ProcessPickedFile, Copy, TypeOK
  <2> QED
    BY <2>1, <2>2 DEF PicksInHand, Together
<1>11. CASE Settle
  <2>1. handling.of \in Picks
    BY <1>11, ClearedHasPick DEF Settle
  <2>2. /\ handling' = NoResult /\ active' = active \ {handling.of}
        /\ UNCHANGED <<kind, calling, shown, overlapped>>
    BY <1>11 DEF Settle
  <2> QED
    BY <2>1, <2>2 DEF PicksInHand, Together, NoResult
<1> QED
  BY <1>1, <1>2, <1>3, <1>4, <1>5, <1>6, <1>7, <1>8, <1>9, <1>10, <1>11 DEF Next, JavaScript, UiThread

-----------------------------------------------------------------------------
(* Where a pointer is.                                                     *)

LEMMA PointerStep ==
  TypeOK /\ PicksInHand /\ PointersHaveKinds /\ [Next]_vars => PointersHaveKinds'
<1> SUFFICES ASSUME TypeOK, PicksInHand, PointersHaveKinds, [Next]_vars
             PROVE  PointersHaveKinds'
  OBVIOUS
<1> USE NoPickIsNoPick DEF threads, fields, history
<1>1. CASE UNCHANGED <<kind, pending, handling>>
  BY <1>1 DEF PointersHaveKinds
<1>2. ASSUME NEW p \in Picks, NEW k \in Kinds, NEW m \in Modes,
             PickRefused(p, k, m) \/ PickStored(p, k, m)
      PROVE PointersHaveKinds'
  <2>1. /\ kind[p] = "none" /\ kind'[p] = k /\ \A q \in Picks : q # p => kind'[q] = kind[q]
        /\ handling' = handling
    BY <1>2, CallTypes DEF PickRefused, PickStored
  <2>2. \A j \in Kinds : pending[j] # p /\ (pending'[j] = p => j = k)
                         /\ (pending'[j] # p => pending'[j] = pending[j])
    BY <1>2, <2>1 DEF PickRefused, PickStored, PointersHaveKinds, TypeOK, Kinds
  <2>3. \A j \in Kinds : pending'[j] # NoPick => kind'[pending'[j]] = j
    BY <2>1, <2>2 DEF PointersHaveKinds, TypeOK
  <2>4. ASSUME handling.promise # NoPick
        PROVE  /\ kind'[handling.promise] = kind'[handling.of]
               /\ handling.cleared => \A j \in Kinds : pending'[j] # handling.promise
    <3>1. handling.of \in active /\ handling.of \in Picks /\ kind[handling.of] # "none"
      BY <2>4, ClearedHasPick DEF PicksInHand
    <3>2. handling.promise \in Picks /\ kind[handling.promise] = kind[handling.of]
      BY <2>4 DEF PointersHaveKinds, TypeOK
    <3>3. handling.promise # p /\ handling.of # p
      BY <2>1, <3>1, <3>2
    <3> QED
      BY <2>1, <2>2, <2>4, <3>1, <3>2, <3>3 DEF PointersHaveKinds
  <2> QED
    BY <2>1, <2>3, <2>4 DEF PointersHaveKinds
<1>3. CASE StartFails
  <2>1. calling.pick \in Picks /\ UNCHANGED <<kind, handling>>
        /\ pending' = [pending EXCEPT ![kind[calling.pick]] = NoPick]
    BY <1>3 DEF StartFails, PicksInHand, TypeOK
  <2> QED
    BY <2>1 DEF PointersHaveKinds, TypeOK
<1>4. ASSUME NEW p \in Picks, ResultArrives(p) PROVE PointersHaveKinds'
  <2>1. CASE listening
    <3>1. /\ handling'.promise = pending[kind[p]] /\ handling'.of = p /\ ~handling'.cleared
          /\ UNCHANGED <<kind, pending>>
      BY <1>4, <2>1 DEF ResultArrives, NoResult
    <3>2. kind[p] \in Kinds
      BY <1>4 DEF ResultArrives, PicksInHand, TypeOK
    <3> QED
      BY <3>1, <3>2 DEF PointersHaveKinds
  <2>2. CASE ~listening
    BY <1>1, <1>4, <2>2 DEF ResultArrives
  <2> QED
    BY <2>1, <2>2
<1>5. CASE ClearPending
  <2>1. /\ pending' = [pending EXCEPT ![kind[handling.of]] = NoPick]
        /\ handling'.of = handling.of /\ handling'.promise = handling.promise
        /\ UNCHANGED kind
    BY <1>5 DEF ClearPending, TypeOK
  <2>2. \A k \in Kinds : pending'[k] = NoPick \/ (pending'[k] = pending[k] /\ k # kind[handling.of])
    BY <2>1 DEF TypeOK
  <2>3. handling.promise # NoPick => \A k \in Kinds : pending'[k] # handling.promise
    BY <2>2 DEF PointersHaveKinds
  <2> QED
    BY <2>1, <2>2, <2>3 DEF PointersHaveKinds
<1>6. CASE ProcessPickedFile
  <2>1. /\ handling'.of = handling.of /\ handling'.promise = handling.promise
        /\ handling'.cleared = handling.cleared /\ UNCHANGED <<kind, pending>>
    BY <1>6 DEF ProcessPickedFile, Copy, TypeOK
  <2> QED
    BY <2>1 DEF PointersHaveKinds
<1>7. CASE Settle
  BY <1>7 DEF Settle, NoResult, PointersHaveKinds
<1>8. CASE StoreMode \/ AddListener \/ StartActivity \/ UNCHANGED vars
  BY <1>1, <1>8 DEF StoreMode, AddListener, StartActivity, vars
<1> QED
  BY <1>2, <1>3, <1>4, <1>5, <1>6, <1>7, <1>8 DEF Next, JavaScript, UiThread

-----------------------------------------------------------------------------
(* How often a pointer is freed.                                           *)

(* A promise that was settled was settled at least once. *)
LEMMA SettledLength ==
  ASSUME TypeOK, NEW p \in Picks
  PROVE  /\ Len(settled[p]) \in Nat
         /\ settled[p] = <<>> => Len(settled[p]) = 0
         /\ settled[p] # <<>> => Len(settled[p]) >= 1
<1>1. settled[p] \in Seq(Answers)
  BY DEF TypeOK
<1> QED
  BY <1>1, NothingYet

(* What FreedPointers says of one pick. *)
Freed(p) ==
  settled[p] # <<>> =>
    /\ kind[p] # "none"
    /\ \A k \in Kinds : pending[k] # p
    /\ handling.promise = p => Len(settled[p]) = 1 /\ p \in overlapped \intersect startFailed
    /\ calling.pick = p =>
         Len(settled[p]) = 1 /\ p \in overlapped /\ handling.promise # p

AtMostTwice(p) ==
  /\ Len(settled[p]) <= 2
  /\ Len(settled[p]) = 2 => p \in overlapped \intersect startFailed

(* The lengths that occur. *)
LEMMA CountToTwo ==
  ASSUME NEW l, NEW m, l = 1, m = l + 1
  PROVE  m = 2 /\ m # 1 /\ m <= 2 /\ l # 2 /\ l <= 2
  OBVIOUS

LEMMA OneIsFew ==
  ASSUME NEW l, l = 1
  PROVE  l # 2 /\ l <= 2
  OBVIOUS

LEMMA FreedStep ==
  IInv /\ [Next]_vars => FreedPointers' /\ OnlyFailedStartsSettleTwice'
<1> SUFFICES ASSUME IInv, [Next]_vars, NEW p \in Picks
             PROVE  Freed(p)' /\ AtMostTwice(p)'
  BY DEF FreedPointers, OnlyFailedStartsSettleTwice, Freed, AtMostTwice
<1> USE NoPickIsNoPick DEF threads, fields, history
<1>a. /\ Freed(p) /\ AtMostTwice(p)
      /\ TypeOK /\ PicksInHand /\ Together /\ PointersHaveKinds
      /\ Len(settled[p]) \in Nat
      /\ settled[p] = <<>> => Len(settled[p]) = 0
      /\ settled[p] # <<>> => Len(settled[p]) >= 1
  BY SettledLength DEF IInv, FreedPointers, OnlyFailedStartsSettleTwice, Freed, AtMostTwice
<1>1. CASE UNCHANGED <<kind, calling, pending, handling, settled, overlapped, startFailed>>
  BY <1>a, <1>1 DEF Freed, AtMostTwice
<1>2. ASSUME NEW q \in Picks, NEW k \in Kinds, NEW m \in Modes, PickRefused(q, k, m)
      PROVE Freed(p)' /\ AtMostTwice(p)'
  <2>1. /\ kind[q] = "none" /\ kind'[q] = k /\ \A r \in Picks : r # q => kind'[r] = kind[r]
        /\ mode'[q] \in Modes
        /\ UNCHANGED <<calling, pending, handling, overlapped, startFailed>>
        /\ settled' = Answer(q, q, FALSE, mode'[q], <<>>)
    BY <1>2, <1>a, CallTypes DEF PickRefused, Refusal
  <2>2. /\ settled'[q] # <<>> /\ Len(settled'[q]) = Len(settled[q]) + 1
        /\ \A r \in Picks : r # q => settled'[r] = settled[r]
    BY <2>1, <1>a, AnswerAdds, NothingYet
  <2>3. CASE p # q
    BY <1>a, <2>1, <2>2, <2>3 DEF Freed, AtMostTwice
  <2>4. CASE p = q
    <3>1. settled[q] = <<>> /\ Len(settled'[q]) = 1
      <4>1. settled[q] = <<>>
        BY <2>1 DEF IInv, FreedPointers
      <4>2. Len(settled[q]) = 0
        BY <1>a, <2>4, <4>1
      <4> QED
        BY <2>2, <4>1, <4>2
    <3>2. kind'[q] # "none" /\ \A j \in Kinds : pending[j] # q
      BY <1>a, <2>1 DEF PointersHaveKinds, Kinds
    <3>3. calling.pick # q
      BY <1>a, <2>1 DEF PicksInHand
    <3>4. handling.promise # q
      <4>1. SUFFICES ASSUME handling.promise = q PROVE FALSE
        OBVIOUS
      <4>2. handling.of \in active
        BY <1>a, <4>1, ClearedHasPick DEF PicksInHand
      <4> QED
        BY <1>a, <2>1, <4>1, <4>2 DEF PicksInHand, PointersHaveKinds
    <3> QED
      <4>1. AtMostTwice(q)'
        BY <3>1 DEF AtMostTwice
      <4>2. Freed(q)'
        BY <2>1, <3>2, <3>3, <3>4 DEF Freed
      <4> QED
        BY <2>4, <4>1, <4>2 DEF Freed, AtMostTwice
  <2> QED
    BY <2>3, <2>4
<1>3. ASSUME NEW q \in Picks, NEW k \in Kinds, NEW m \in Modes, PickStored(q, k, m)
      PROVE Freed(p)' /\ AtMostTwice(p)'
  <2>1. /\ kind[q] = "none" /\ kind'[q] = k /\ \A r \in Picks : r # q => kind'[r] = kind[r]
    BY <1>3, <1>a, CallTypes DEF PickStored
  <2>2. /\ UNCHANGED <<handling, settled, startFailed>> /\ overlapped \subseteq overlapped'
        /\ calling'.pick = q /\ pending' = [pending EXCEPT ![k] = q]
    BY <1>3 DEF PickStored
  <2>3. settled[q] = <<>>
    BY <1>a, <2>1 DEF IInv, FreedPointers
  <2>4. CASE p # q
    <3>1. settled[p] # <<>> => kind'[p] # "none" /\ \A j \in Kinds : pending'[j] # p
      BY <1>a, <2>1, <2>2, <2>4 DEF Freed, TypeOK
    <3> QED
      BY <1>a, <2>2, <2>4, <3>1 DEF Freed, AtMostTwice
  <2>5. CASE p = q
    BY <1>a, <2>2, <2>3, <2>5 DEF Freed, AtMostTwice
  <2> QED
    BY <2>4, <2>5
<1>4. CASE StoreMode \/ AddListener
  <2>1. calling'.pick = calling.pick
        /\ UNCHANGED <<kind, pending, handling, settled, overlapped, startFailed>>
    BY <1>4, <1>a DEF StoreMode, AddListener, TypeOK
  <2> QED
    BY <1>a, <2>1 DEF Freed, AtMostTwice
<1>5. CASE StartActivity
  <2>1. calling'.pick = NoPick
        /\ UNCHANGED <<kind, pending, handling, settled, overlapped, startFailed>>
    BY <1>5 DEF StartActivity, NoCall
  <2> QED
    BY <1>a, <2>1 DEF Freed, AtMostTwice
<1>6. CASE StartFails
  <2>0. PICK q \in Picks : q = calling.pick
    BY <1>6, <1>a DEF StartFails, PicksInHand, TypeOK
  <2>1. q \in active /\ kind[q] # "none" /\ kind[q] \in Kinds /\ mode'[q] \in Modes
    BY <1>6, <1>a, <2>0 DEF StartFails, PicksInHand, TypeOK
  <2>2. /\ pending' = [pending EXCEPT ![kind[q]] = NoPick] /\ calling'.pick = NoPick
        /\ startFailed' = startFailed \union {q}
        /\ UNCHANGED <<kind, handling, overlapped>>
        /\ settled' = Answer(q, q, FALSE, mode'[q], <<>>)
    BY <1>6, <2>0 DEF StartFails, NoCall, Refusal
  <2>3. /\ settled'[q] # <<>> /\ Len(settled'[q]) = Len(settled[q]) + 1
        /\ \A r \in Picks : r # q => settled'[r] = settled[r]
    BY <2>1, <2>2, <1>a, AnswerAdds, NothingYet
  <2>4. \A j \in Kinds : pending'[j] = NoPick \/ (pending'[j] = pending[j] /\ j # kind[q])
    BY <1>a, <2>1, <2>2 DEF TypeOK
  <2>5. CASE p # q
    <3>1. settled[p] # <<>> => \A j \in Kinds : pending'[j] # p
      BY <1>a, <2>4 DEF Freed
    <3> QED
      BY <1>a, <2>2, <2>3, <2>5, <3>1 DEF Freed, AtMostTwice
  <2>6. CASE p = q
    <3>1. \A j \in Kinds : pending'[j] # q
      BY <1>a, <2>1, <2>4 DEF PointersHaveKinds
    <3>2. handling.promise = q => q \in overlapped
      <4>1. SUFFICES ASSUME handling.promise = q PROVE q \in overlapped
        OBVIOUS
      <4>2. handling.of \in active /\ handling.of # q
        BY <1>a, <2>0, <2>1, <4>1, ClearedHasPick DEF PicksInHand
      <4> QED
        BY <1>a, <2>1, <4>2 DEF Together
    <3>3. settled[q] # <<>> => Len(settled[q]) = 1 /\ q \in overlapped /\ handling.promise # q
      BY <1>a, <2>0, <2>6 DEF Freed
    <3>4. settled[q] = <<>> => Len(settled'[q]) = 1
      BY <1>a, <2>3, <2>6
    <3>5. CASE settled[q] = <<>>
      <4>1. Freed(q)'
        BY <2>1, <2>2, <3>1, <3>2, <3>4, <3>5 DEF Freed
      <4>2. AtMostTwice(q)'
        BY <3>4, <3>5, SMTT(20) DEF AtMostTwice
      <4> QED
        BY <2>6, <4>1, <4>2 DEF Freed, AtMostTwice
    <3>6. CASE settled[q] # <<>>
      <4>0. Len(settled[q]) = 1 /\ Len(settled'[q]) = Len(settled[q]) + 1
        BY <2>3, <3>3, <3>6
      <4>1. Len(settled'[q]) <= 2
        BY <4>0, CountToTwo
      <4>2. AtMostTwice(q)'
        BY <2>2, <3>3, <3>6, <4>1 DEF AtMostTwice
      <4>3. Freed(q)'
        BY <2>1, <2>2, <3>1, <3>3, <3>6 DEF Freed
      <4> QED
        BY <2>6, <4>2, <4>3 DEF Freed, AtMostTwice
    <3> QED
      BY <3>5, <3>6
  <2> QED
    BY <2>5, <2>6
<1>7. ASSUME NEW q \in Picks, ResultArrives(q) PROVE Freed(p)' /\ AtMostTwice(p)'
  <2>1. CASE listening
    <3>1. /\ handling'.promise = pending[kind[q]] /\ kind[q] \in Kinds
          /\ UNCHANGED <<kind, calling, pending, settled, overlapped, startFailed>>
      BY <1>7, <1>a, <2>1 DEF ResultArrives, NoResult, PicksInHand, TypeOK
    <3> QED
      BY <1>a, <3>1 DEF Freed, AtMostTwice
  <2>2. CASE ~listening
    BY <1>1, <1>7, <2>2 DEF ResultArrives
  <2> QED
    BY <2>1, <2>2
<1>8. CASE ClearPending
  <2>1. /\ pending' = [pending EXCEPT ![kind[handling.of]] = NoPick]
        /\ handling'.promise = handling.promise
        /\ UNCHANGED <<kind, calling, settled, overlapped, startFailed>>
    BY <1>8, <1>a DEF ClearPending, TypeOK
  <2>2. \A k \in Kinds : pending'[k] \in {NoPick, pending[k]}
    BY <1>a, <2>1 DEF TypeOK
  <2>3. settled[p] # <<>> => \A k \in Kinds : pending'[k] # p
    BY <1>a, <2>2 DEF Freed
  <2> QED
    BY <1>a, <2>1, <2>3 DEF Freed, AtMostTwice
<1>9. CASE ProcessPickedFile
  <2>1. /\ handling'.promise = handling.promise
        /\ UNCHANGED <<kind, calling, pending, settled, overlapped, startFailed>>
    BY <1>9, <1>a DEF ProcessPickedFile, Copy, TypeOK
  <2> QED
    BY <1>a, <2>1 DEF Freed, AtMostTwice
<1>10. CASE Settle
  <2>1. /\ handling'.promise = NoPick /\ handling.cleared
        /\ UNCHANGED <<kind, calling, pending, overlapped, startFailed>>
    BY <1>10 DEF Settle, NoResult
  <2>2. CASE handling.promise = NoPick
    BY <1>10, <1>a, <2>1, <2>2 DEF Settle, Freed, AtMostTwice
  <2>3. CASE handling.promise # NoPick
    <3>0. PICK q \in Picks : q = handling.promise
      BY <1>a, <2>3 DEF TypeOK
    <3>1. /\ handling.of \in Picks /\ handling.of \in active
          /\ handling.of # calling.pick /\ handling.ok \in BOOLEAN /\ handling.mode \in Modes
          /\ handling.got \in Seq(Placed)
      BY <1>a, <2>1, <2>3, ClearedHasPick DEF TypeOK, PicksInHand
    <3>2. settled' = Answer(q, handling.of, handling.ok, handling.mode, handling.got)
      BY <1>10, <2>3, <3>0 DEF Settle
    <3>3. kind[q] = kind[handling.of] /\ kind[handling.of] # "none"
          /\ \A k \in Kinds : pending[k] # q
      BY <1>a, <2>1, <2>3, <3>0, <3>1 DEF PointersHaveKinds, PicksInHand
    <3>4. calling.pick = q => q \in overlapped
      BY <1>a, <3>1 DEF PicksInHand, Together
    <3>5. /\ settled'[q] # <<>> /\ Len(settled'[q]) = Len(settled[q]) + 1
          /\ \A r \in Picks : r # q => settled'[r] = settled[r]
      BY <1>a, <3>1, <3>2, AnswerAdds
    <3>6. CASE p # q
      BY <1>a, <2>1, <3>5, <3>6 DEF Freed, AtMostTwice
    <3>7. CASE p = q
      <4>1. settled[q] # <<>> => /\ Len(settled[q]) = 1 /\ calling.pick # q
                                 /\ q \in overlapped \intersect startFailed
        BY <1>a, <3>0, <3>7 DEF Freed
      <4>2. settled[q] = <<>> => Len(settled'[q]) = 1
        BY <1>a, <3>5, <3>7
      <4>3. /\ Len(settled'[q]) <= 2
            /\ Len(settled'[q]) = 2 => q \in overlapped \intersect startFailed
            /\ calling.pick = q => Len(settled'[q]) = 1
        <5>1. CASE settled[q] = <<>>
          <6>1. Len(settled'[q]) = 1
            BY <4>2, <5>1
          <6> QED
            BY <6>1, OneIsFew
        <5>2. CASE settled[q] # <<>>
          <6>1. Len(settled[q]) = 1 /\ Len(settled'[q]) = Len(settled[q]) + 1
            BY <3>5, <4>1, <5>2
          <6>2. Len(settled'[q]) <= 2
            BY <6>1, CountToTwo
          <6> QED
            BY <4>1, <5>2, <6>2
        <5> QED
          BY <5>1, <5>2
      <4>4. Freed(q)'
        BY <2>1, <3>1, <3>3, <3>4, <4>3 DEF Freed
      <4>5. AtMostTwice(q)'
        BY <2>1, <4>3 DEF AtMostTwice
      <4> QED
        BY <3>7, <4>4, <4>5 DEF Freed, AtMostTwice
    <3> QED
      BY <3>6, <3>7
  <2> QED
    BY <2>2, <2>3
<1>11. CASE UNCHANGED vars
  BY <1>1, <1>11 DEF vars
<1> QED
  BY <1>2, <1>3, <1>4, <1>5, <1>6, <1>7, <1>8, <1>9, <1>10, <1>11 DEF IInv, Next, JavaScript, UiThread

(* At the start nothing is under way and nothing was settled.              *)
LEMMA PickerStart == Init => IInv
<1> SUFFICES ASSUME Init PROVE IInv
  OBVIOUS
<1>1. TypeOK
  <2>1. NoResult \in Results /\ NoCall \in [pick : Picks \union {NoPick}, at : {"none", "mode", "listen", "start"}]
    BY NothingYet, ItemsAreCounted DEF NoResult, NoCall, Modes, Results
  <2>2. settled \in [Picks -> Seq(Answers)]
    BY NothingYet DEF Init
  <2> HIDE DEF Results, NoResult, NoCall
  <2> QED
    BY <2>1, <2>2 DEF Init, TypeOK, Results, Kinds, Modes
<1>2. PicksInHand /\ Together /\ PointersHaveKinds
  BY DEF Init, PicksInHand, Together, PointersHaveKinds, NoCall, NoResult
<1>3. FreedPointers /\ OnlyFailedStartsSettleTwice
  BY NothingYet DEF Init, FreedPointers, OnlyFailedStartsSettleTwice
<1> QED
  BY <1>1, <1>2, <1>3 DEF IInv

LEMMA PickerInvariant == Spec => []IInv
<1>1. IInv /\ [Next]_vars => IInv'
  BY TypeStep, HandStep, PointerStep, FreedStep DEF IInv
<1> QED
  BY <1>1, PickerStart, PTL DEF Spec

(* The fields shared by the two threads keep their types, whatever the     *)
(* order of a call's statements and of the results' handlers.              *)
THEOREM PickerTypes == Spec => []TypeOK
BY PickerInvariant, PTL DEF IInv

(* For any number of picks under way at once: no promise's pointer is      *)
(* freed a third time, and it is freed twice only when another pick's      *)
(* result took it and the pick's own activity then could not be started.   *)
THEOREM PromisesAreSettledOnce == Spec => []OnlyFailedStartsSettleTwice
BY PickerInvariant, PTL DEF IInv

-----------------------------------------------------------------------------
(* What a pick gets that is alone.                                         *)

LEMMA LoneFieldsStep == IInv /\ LoneFields /\ [Next]_vars => LoneFields'
<1> SUFFICES ASSUME IInv, LoneFields, [Next]_vars PROVE LoneFields'
  OBVIOUS
<1> USE NoPickIsNoPick DEF threads, fields, history
<1>a. TypeOK /\ PicksInHand /\ Together /\ PointersHaveKinds
      /\ active \subseteq Picks /\ overlapped \subseteq Picks
  BY NamedTypes DEF IInv
<1>1. CASE UNCHANGED <<kind, mode, calling, pending, pendingMode, handling, active, overlapped>>
  BY <1>1 DEF LoneFields
<1>2. ASSUME NEW p \in Picks, NEW k \in Kinds, NEW m \in Modes, PickRefused(p, k, m)
      PROVE LoneFields'
  <2>1. /\ kind[p] = "none" /\ p \notin active
        /\ \A q \in active : q # p /\ kind'[q] = kind[q] /\ mode'[q] = mode[q]
        /\ UNCHANGED <<calling, pending, pendingMode, handling, active, overlapped>>
    BY <1>2, <1>a, CallTypes DEF PickRefused, PicksInHand
  <2>2. handling.promise # NoPick => handling.of \in active
    BY <1>a, ClearedHasPick DEF PicksInHand
  <2> QED
    BY <2>1, <2>2 DEF LoneFields
<1>3. ASSUME NEW p \in Picks, NEW k \in Kinds, NEW m \in Modes, PickStored(p, k, m)
      PROVE LoneFields'
  <2>1. /\ kind[p] = "none" /\ kind'[p] = k /\ p \notin active
        /\ \A q \in active : q # p /\ kind'[q] = kind[q] /\ mode'[q] = mode[q]
    BY <1>3, <1>a, CallTypes DEF PickStored, PicksInHand
  <2>2. /\ pending' = [pending EXCEPT ![k] = p] /\ active' = active \union {p}
        /\ calling'.pick = p /\ calling'.at = (IF k = "files" THEN "mode" ELSE "listen")
        /\ active # {} => overlapped' = overlapped \union active'
        /\ overlapped \subseteq overlapped'
        /\ UNCHANGED <<handling, pendingMode>>
    BY <1>3 DEF PickStored
  <2>3. ASSUME NEW j \in Kinds, NEW q \in active', pending'[j] \in Picks \ overlapped',
               kind'[q] = j
        PROVE  q = pending'[j]
    <3>1. CASE j = k
      BY <1>a, <2>2, <2>3, <3>1 DEF TypeOK
    <3>2. CASE j # k
      <4>1. pending'[j] = pending[j] /\ q \in active /\ kind[q] = j
        BY <1>a, <2>1, <2>2, <2>3, <3>2 DEF TypeOK
      <4> QED
        BY <2>2, <2>3, <4>1 DEF LoneFields
    <3> QED
      BY <3>1, <3>2
  <2>4. ASSUME NEW q \in active' \ overlapped', kind'[q] = "files",
               ~(calling'.pick = q /\ calling'.at = "mode")
        PROVE  pendingMode' = mode'[q]
    BY <2>1, <2>2, <2>4
  <2>5. ASSUME handling'.promise \in Picks \ overlapped'
        PROVE  /\ handling'.promise = handling'.of
               /\ kind'[handling'.of] = "files" => handling'.mode = mode'[handling'.of]
    <3>1. handling.promise \in Picks \ overlapped /\ handling.promise # NoPick
      BY <2>2, <2>5
    <3>2. handling.of \in active
      BY <1>a, <3>1, ClearedHasPick DEF PicksInHand
    <3> QED
      BY <2>1, <2>2, <3>1, <3>2 DEF LoneFields
  <2> QED
    BY <2>3, <2>4, <2>5 DEF LoneFields
<1>4. CASE StoreMode
  <2>1. /\ pendingMode' = mode[calling.pick] /\ calling.pick \in active
        /\ UNCHANGED <<kind, mode, handling, pending, active, overlapped>>
    BY <1>4, <1>a DEF StoreMode, PicksInHand
  <2>2. \A q \in active \ overlapped : q = calling.pick
    BY <1>a, <2>1 DEF Together
  <2> QED
    BY <2>1, <2>2 DEF LoneFields
<1>5. CASE AddListener \/ StartActivity
  <2>1. /\ calling.at # "mode"
        /\ UNCHANGED <<kind, mode, handling, pending, pendingMode, active, overlapped>>
    BY <1>5 DEF AddListener, StartActivity
  <2> QED
    BY <2>1 DEF LoneFields
<1>6. CASE StartFails
  <2>1. /\ active' \subseteq active \ {calling.pick} /\ calling.at # "mode"
        /\ pending' = [pending EXCEPT ![kind[calling.pick]] = NoPick]
        /\ UNCHANGED <<kind, mode, handling, pendingMode, overlapped>>
    BY <1>6 DEF StartFails
  <2>2. \A k \in Kinds : pending'[k] \in {NoPick, pending[k]}
    BY <1>a, <2>1 DEF TypeOK
  <2> QED
    BY <2>1, <2>2 DEF LoneFields
<1>7. ASSUME NEW q \in Picks, ResultArrives(q) PROVE LoneFields'
  <2>1. UNCHANGED <<kind, mode, calling, pending, pendingMode, overlapped>>
    BY <1>7 DEF ResultArrives
  <2>2. CASE listening
    <3>1. /\ handling'.promise = pending[kind[q]] /\ handling'.of = q
          /\ handling'.mode = pendingMode /\ UNCHANGED active
      BY <1>7, <2>2 DEF ResultArrives, NoResult
    <3>2. q \in active /\ q # calling.pick /\ kind[q] \in Kinds
      BY <1>7, <1>a DEF ResultArrives, PicksInHand, TypeOK
    <3>3. pending[kind[q]] \in Picks \ overlapped => q = pending[kind[q]]
      BY <3>2 DEF LoneFields
    <3>4. q \notin overlapped /\ kind[q] = "files" => pendingMode = mode[q]
      BY <3>2 DEF LoneFields
    <3> QED
      BY <2>1, <3>1, <3>3, <3>4 DEF LoneFields
  <2>3. CASE ~listening
    <3>1. active' \subseteq active /\ UNCHANGED handling
      BY <1>7, <2>3 DEF ResultArrives
    <3> QED
      BY <2>1, <3>1 DEF LoneFields
  <2> QED
    BY <2>2, <2>3
<1>8. CASE ClearPending
  <2>1. /\ pending' = [pending EXCEPT ![kind[handling.of]] = NoPick]
        /\ handling'.promise = handling.promise /\ handling'.of = handling.of
        /\ handling'.mode = handling.mode
        /\ UNCHANGED <<kind, mode, calling, pendingMode, active, overlapped>>
    BY <1>8, <1>a DEF ClearPending, TypeOK
  <2>2. \A k \in Kinds : pending'[k] \in {NoPick, pending[k]}
    BY <1>a, <2>1 DEF TypeOK
  <2> QED
    BY <2>1, <2>2 DEF LoneFields
<1>9. CASE ProcessPickedFile
  <2>1. /\ handling'.promise = handling.promise /\ handling'.of = handling.of
        /\ handling'.mode = handling.mode
        /\ UNCHANGED <<kind, mode, calling, pending, pendingMode, active, overlapped>>
    BY <1>9, <1>a DEF ProcessPickedFile, Copy, TypeOK
  <2> QED
    BY <2>1 DEF LoneFields
<1>10. CASE Settle
  <2>1. /\ handling'.promise = NoPick /\ active' \subseteq active
        /\ UNCHANGED <<kind, mode, calling, pending, pendingMode, overlapped>>
    BY <1>10 DEF Settle, NoResult
  <2> QED
    BY <2>1 DEF LoneFields
<1>11. CASE UNCHANGED vars
  BY <1>1, <1>11 DEF vars
<1> QED
  BY <1>2, <1>3, <1>4, <1>5, <1>6, <1>7, <1>8, <1>9, <1>10, <1>11 DEF Next, JavaScript, UiThread

(* What LonePicksGetTheirOwn says of one pick. *)
GetsItsOwn(p) ==
  \A i \in DOMAIN settled[p] :
    settled[p][i].by = p /\ (kind[p] = "files" => settled[p][i].mode = mode[p])

LEMMA LoneAnswersStep ==
  IInv /\ LoneFields /\ LonePicksGetTheirOwn /\ [Next]_vars => LonePicksGetTheirOwn'
<1> SUFFICES ASSUME IInv, LoneFields, LonePicksGetTheirOwn, [Next]_vars,
                    NEW p \in Picks, p \notin overlapped'
             PROVE  GetsItsOwn(p)'
  BY DEF LonePicksGetTheirOwn, GetsItsOwn
<1> USE NoPickIsNoPick DEF threads, fields, history
<1>a. TypeOK /\ PicksInHand /\ (p \notin overlapped => GetsItsOwn(p))
  BY DEF IInv, LonePicksGetTheirOwn, GetsItsOwn
<1>b. kind[p] = "none" => settled[p] = <<>>
  BY DEF IInv, FreedPointers
<1>1. CASE UNCHANGED <<kind, mode, settled, overlapped>>
  BY <1>a, <1>1 DEF GetsItsOwn
<1>2. ASSUME NEW q \in Picks, NEW k \in Kinds, NEW m \in Modes, PickRefused(q, k, m)
      PROVE GetsItsOwn(p)'
  <2>1. /\ kind[q] = "none" /\ mode'[q] \in Modes
        /\ \A r \in Picks : r # q => kind'[r] = kind[r] /\ mode'[r] = mode[r]
        /\ settled' = Answer(q, q, FALSE, mode'[q], <<>>) /\ UNCHANGED overlapped
    BY <1>2, <1>a, CallTypes DEF PickRefused, Refusal
  <2>2. \A i \in DOMAIN settled'[p] :
          \/ i \in DOMAIN settled[p] /\ settled'[p][i] = settled[p][i]
          \/ p = q /\ settled'[p][i].by = q /\ settled'[p][i].mode = mode'[q]
    <3>1. \A r \in Picks : \A i \in DOMAIN settled'[r] :
            \/ i \in DOMAIN settled[r] /\ settled'[r][i] = settled[r][i]
            \/ /\ r = q /\ settled'[r][i].by = q
               /\ settled'[r][i].mode = mode'[q] /\ settled'[r][i].files = <<>>
      BY <2>1, <1>a, RefusalsAre
    <3> QED
      BY <3>1
  <2>3. CASE p # q
    BY <1>a, <2>1, <2>2, <2>3 DEF GetsItsOwn
  <2>4. CASE p = q
    <3>1. DOMAIN settled[p] = {}
      BY <1>b, <2>1, <2>4
    <3> QED
      BY <2>2, <2>4, <3>1 DEF GetsItsOwn
  <2> QED
    BY <2>3, <2>4
<1>3. ASSUME NEW q \in Picks, NEW k \in Kinds, NEW m \in Modes, PickStored(q, k, m)
      PROVE GetsItsOwn(p)'
  <2>1. /\ kind[q] = "none"
        /\ \A r \in Picks : r # q => kind'[r] = kind[r] /\ mode'[r] = mode[r]
    BY <1>3, <1>a, CallTypes DEF PickStored
  <2>2. overlapped \subseteq overlapped' /\ UNCHANGED settled
    BY <1>3 DEF PickStored
  <2>3. CASE p # q
    BY <1>a, <2>1, <2>2, <2>3 DEF GetsItsOwn
  <2>4. CASE p = q
    BY <1>b, <2>1, <2>2, <2>4 DEF GetsItsOwn
  <2> QED
    BY <2>3, <2>4
<1>4. CASE StartFails
  <2>0. PICK q \in Picks : q = calling.pick
    BY <1>4, <1>a DEF StartFails, PicksInHand, TypeOK
  <2>1. /\ mode'[q] \in Modes /\ UNCHANGED <<kind, mode, overlapped>>
        /\ settled' = Answer(q, q, FALSE, mode'[q], <<>>)
    BY <1>4, <1>a, <2>0 DEF StartFails, Refusal, TypeOK
  <2>2. \A i \in DOMAIN settled'[p] :
          \/ i \in DOMAIN settled[p] /\ settled'[p][i] = settled[p][i]
          \/ p = q /\ settled'[p][i].by = q /\ settled'[p][i].mode = mode'[q]
    <3>1. \A r \in Picks : \A i \in DOMAIN settled'[r] :
            \/ i \in DOMAIN settled[r] /\ settled'[r][i] = settled[r][i]
            \/ /\ r = q /\ settled'[r][i].by = q
               /\ settled'[r][i].mode = mode'[q] /\ settled'[r][i].files = <<>>
      BY <2>1, <1>a, RefusalsAre
    <3> QED
      BY <3>1
  <2> QED
    BY <1>a, <2>1, <2>2, ZenonT(40) DEF GetsItsOwn
<1>5. CASE Settle
  <2>1. UNCHANGED <<kind, mode, overlapped>>
    BY <1>5 DEF Settle
  <2>2. CASE handling.promise = NoPick
    BY <1>1, <1>5, <2>1, <2>2 DEF Settle
  <2>3. CASE handling.promise # NoPick
    <3>0. PICK q \in Picks : q = handling.promise
      BY <1>a, <2>3 DEF TypeOK
    <3>1. /\ settled' = Answer(q, handling.of, handling.ok, handling.mode, handling.got)
          /\ handling.of \in Picks /\ handling.ok \in BOOLEAN /\ handling.mode \in Modes
          /\ handling.got \in Seq(Placed)
      BY <1>5, <1>a, <2>3, <3>0, ClearedHasPick DEF Settle, TypeOK
    <3>2. \A i \in DOMAIN settled'[p] :
            \/ i \in DOMAIN settled[p] /\ settled'[p][i] = settled[p][i]
            \/ p = q /\ settled'[p][i].by = handling.of /\ settled'[p][i].mode = handling.mode
      BY <1>a, <3>1, AnswersAre
    <3>3. q \notin overlapped => q = handling.of /\ (kind[q] = "files" => handling.mode = mode[q])
      BY <3>0 DEF LoneFields
    <3> QED
      BY <1>a, <2>1, <3>2, <3>3 DEF GetsItsOwn
  <2> QED
    BY <2>2, <2>3
<1>6. ASSUME NEW q \in Picks,
             ResultArrives(q) \/ StoreMode \/ AddListener \/ StartActivity \/ ClearPending
             \/ ProcessPickedFile \/ UNCHANGED vars
      PROVE  UNCHANGED <<kind, mode, settled, overlapped>>
  BY <1>6 DEF ResultArrives, StoreMode, AddListener, StartActivity, ClearPending,
              ProcessPickedFile, vars
<1> QED
  BY <1>1, <1>2, <1>3, <1>4, <1>5, <1>6 DEF Next, JavaScript, UiThread

(* A pick during which no other is under way, of however many a program    *)
(* makes, is answered by its own activity and in the mode it asked for.    *)
THEOREM LonePicksAreServed == Spec => []LonePicksGetTheirOwn
<1>1. Init => LInv
  BY NoPickIsNoPick DEF Init, LInv, LoneFields, LonePicksGetTheirOwn, NoResult
<1>2. IInv /\ LInv /\ [Next]_vars => LInv'
  BY LoneFieldsStep, LoneAnswersStep DEF LInv
<1>3. LInv => LonePicksGetTheirOwn
  BY DEF LInv
<1> QED
  BY <1>1, <1>2, <1>3, PickerInvariant, PTL DEF Spec

-----------------------------------------------------------------------------
(* The files of imports.                                                   *)

LEMMA MembersOfSeq ==
  ASSUME NEW S, NEW q \in Seq(S), NEW i \in DOMAIN q
  PROVE  q[i] \in S
  OBVIOUS

(* A name that is taken in the cache is not given away.                    *)
LEMMA FilesStay ==
  ASSUME TypeOK, NEW s \in Slots, FirstFree(s),
         \A t \in Slots : t # s => cache'[t] = cache[t],
         NEW f \in Placed, Kept(f, cache)
  PROVE  Kept(f, cache')
<1>1. f.item \in Items /\ f.at \in Slots \union {Original}
  BY DEF Placed
<1>2. f.item # Nothing
  <2>1. PICK a \in Picks, b \in 1..MaxItems : f.item = <<a, b>>
    BY <1>1 DEF Items
  <2>2. DOMAIN <<a, b>> = 1..2 /\ DOMAIN (<<>>) = {} /\ 1 \in 1..2
    OBVIOUS
  <2> QED
    BY <2>1, <2>2 DEF Nothing
<1>3. f.at # Original => f.at \in Slots /\ f.at # s
  BY <1>1, <1>2 DEF Kept, FirstFree
<1> QED
  BY <1>3 DEF Kept

LEMMA FilesOfAnswers ==
  ASSUME TypeOK, NEW p \in Picks, NEW i \in DOMAIN settled[p]
  PROVE  settled[p][i].files \in Seq(Placed)
<1>1. settled[p] \in Seq(Answers)
  BY DEF TypeOK
<1>2. settled[p][i] \in Answers
  BY <1>1, MembersOfSeq
<1> QED
  BY <1>2 DEF Answers

LEMMA ImportStep == TypeOK /\ PicksInHand /\ CInv /\ [Next]_vars => CInv'
<1> SUFFICES ASSUME TypeOK, PicksInHand, CInv, [Next]_vars PROVE CInv'
  OBVIOUS
<1> USE NoPickIsNoPick DEF threads, fields, history
<1>1. CASE UNCHANGED <<cache, settled>> /\ handling'.got = handling.got
  BY <1>1 DEF CInv, AllKept, Kept
<1>2. ASSUME UNCHANGED <<cache, handling>>, NEW q \in Picks, mode'[q] \in Modes,
             settled' = Answer(q, q, FALSE, mode'[q], <<>>)
      PROVE CInv'
  <2>1. \A p \in Picks : \A i \in DOMAIN settled'[p] :
          \/ i \in DOMAIN settled[p] /\ settled'[p][i].files = settled[p][i].files
          \/ settled'[p][i].files = <<>>
    BY <1>2, RefusalsAre, ZenonT(40)
  <2>2. DOMAIN (<<>>) = {}
    OBVIOUS
  <2>3. AllKept(handling'.got, cache') /\ AllKept(<<>>, cache')
    BY <1>2, <2>2 DEF CInv, AllKept
  <2>4. ASSUME NEW p \in Picks, NEW i \in DOMAIN settled'[p]
        PROVE  AllKept(settled'[p][i].files, cache')
    BY <1>2, <2>1, <2>3 DEF CInv
  <2> QED
    BY <2>3, <2>4 DEF CInv
<1>3. ASSUME NEW q \in Picks, NEW k \in Kinds, NEW m \in Modes, PickRefused(q, k, m)
      PROVE CInv'
  BY <1>2, <1>3, CallTypes DEF PickRefused, Refusal
<1>4. CASE StartFails
  <2>0. PICK q \in Picks : q = calling.pick
    BY <1>4 DEF StartFails, PicksInHand, TypeOK
  <2>1. UNCHANGED <<cache, handling>> /\ mode'[q] \in Modes
        /\ settled' = Answer(q, q, FALSE, mode'[q], <<>>)
    BY <1>4, <2>0 DEF StartFails, Refusal, TypeOK
  <2> QED
    BY <1>2, <2>1
<1>5. ASSUME NEW q \in Picks, ResultArrives(q) PROVE CInv'
  <2>1. CASE listening
    <3>1. handling'.got = <<>> /\ UNCHANGED <<cache, settled>>
      BY <1>5, <2>1 DEF ResultArrives, NoResult
    <3>2. DOMAIN (<<>>) = {}
      OBVIOUS
    <3> QED
      BY <3>1, <3>2 DEF CInv, AllKept, Kept
  <2>2. CASE ~listening
    BY <1>1, <1>5, <2>2 DEF ResultArrives
  <2> QED
    BY <2>1, <2>2
<1>6. CASE ProcessPickedFile
  <2>1. handling.of \in Picks /\ handling.got \in Seq(Placed)
        /\ Len(handling.got) + 1 \in 1..MaxItems
    BY <1>6, ClearedHasPick, ItemsAreCounted DEF ProcessPickedFile, TypeOK
  <2>2. \A at \in Slots \union {Original} : Picked(at) \in Placed /\ Picked(at).at = at
    BY <2>1 DEF Picked, Placed, Items
  <2>3. ASSUME NEW at \in Slots \union {Original},
               \/ UNCHANGED cache
               \/ \E s \in Slots : /\ FirstFree(s)
                                   /\ \A t \in Slots : t # s => cache'[t] = cache[t],
               handling' = [handling EXCEPT !.got = Append(handling.got, Picked(at))],
               Kept(Picked(at), cache'), UNCHANGED settled
        PROVE  CInv'
    <3>1. \A f \in Placed : Kept(f, cache) => Kept(f, cache')
      <4>1. CASE UNCHANGED cache
        BY <4>1 DEF Kept
      <4>2. CASE ~UNCHANGED cache
        BY <2>3, <4>2, FilesStay
      <4> QED
        BY <4>1, <4>2
    <3>2. handling'.got = Append(handling.got, Picked(at))
      BY <2>3 DEF TypeOK
    <3>3. AllKept(handling'.got, cache')
      <4>1. SUFFICES ASSUME NEW j \in DOMAIN handling'.got PROVE Kept(handling'.got[j], cache')
        BY DEF AllKept
      <4>2. Picked(at) \in Placed
        BY <2>2
      <4>3. CASE j \in DOMAIN handling.got
        <5>1. handling'.got[j] = handling.got[j] /\ handling.got[j] \in Placed
          BY <2>1, <3>2, <4>2, <4>3, Appended, MembersOfSeq
        <5>2. Kept(handling.got[j], cache)
          BY <4>3 DEF CInv, AllKept
        <5> QED
          BY <3>1, <5>1, <5>2
      <4>4. CASE j \notin DOMAIN handling.got
        <5>1. handling'.got[j] = Picked(at)
          BY <2>1, <3>2, <4>1, <4>2, <4>4, Appended
        <5> QED
          BY <2>3, <5>1
      <4> QED
        BY <4>3, <4>4
    <3>4. ASSUME NEW p \in Picks, NEW i \in DOMAIN settled[p], NEW j \in DOMAIN settled[p][i].files
          PROVE  Kept(settled[p][i].files[j], cache')
      <4>1. settled[p][i].files[j] \in Placed
        BY FilesOfAnswers, MembersOfSeq
      <4>2. Kept(settled[p][i].files[j], cache)
        BY DEF CInv, AllKept
      <4> QED
        BY <3>1, <4>1, <4>2
    <3> QED
      BY <2>3, <3>3, <3>4 DEF CInv, AllKept
  <2>4. CASE handling.mode = "import"
    <3>1. PICK s \in Slots : Copy(s)
      BY <1>6, <2>4 DEF ProcessPickedFile
    <3>2. FirstFree(s) /\ UNCHANGED settled /\ Original \in Slots \union {Original}
      BY <1>6, <3>1 DEF ProcessPickedFile, Copy
    <3>3. CASE /\ cache' = [cache EXCEPT ![s] = Picked(s).item]
               /\ handling' = [handling EXCEPT !.got = Append(@, Picked(s))]
      <4>1. cache'[s] = Picked(s).item /\ \A t \in Slots : t # s => cache'[t] = cache[t]
        BY <3>3 DEF TypeOK
      <4>2. Kept(Picked(s), cache')
        BY <2>2, <3>3, <4>1 DEF Kept, Picked
      <4> QED
        BY <2>3, <3>2, <3>3, <4>1, <4>2
    <3>4. CASE /\ cache' \in {cache, [cache EXCEPT ![s] = Partial]}
               /\ handling' = [handling EXCEPT !.got = Append(@, Picked(Original))]
      <4>1. \A t \in Slots : t # s => cache'[t] = cache[t]
        BY <3>4 DEF TypeOK
      <4>2. Kept(Picked(Original), cache')
        BY DEF Kept, Picked
      <4> QED
        BY <2>3, <3>2, <3>4, <4>1, <4>2
    <3> QED
      BY <3>1, <3>3, <3>4 DEF Copy
  <2>5. CASE handling.mode # "import"
    <3>1. handling' = [handling EXCEPT !.got = Append(@, Picked(Original))]
          /\ UNCHANGED <<cache, settled>>
      BY <1>6, <2>5 DEF ProcessPickedFile
    <3>2. Kept(Picked(Original), cache') /\ Original \in Slots \union {Original}
      BY <2>2 DEF Kept
    <3> QED
      BY <2>3, <3>1, <3>2
  <2> QED
    BY <2>4, <2>5
<1>7. CASE Settle
  <2>1. handling'.got = <<>> /\ UNCHANGED cache
    BY <1>7 DEF Settle, NoResult
  <2>2. DOMAIN (<<>>) = {}
    OBVIOUS
  <2>3. \A p \in Picks : \A i \in DOMAIN settled'[p] :
          \/ i \in DOMAIN settled[p] /\ settled'[p][i].files = settled[p][i].files
          \/ settled'[p][i].files = handling.got
    <3>1. CASE handling.promise = NoPick
      BY <1>7, <3>1 DEF Settle
    <3>2. CASE handling.promise # NoPick
      <4>0. PICK q \in Picks : q = handling.promise
        BY <3>2 DEF TypeOK
      <4>1. /\ settled' = Answer(q, handling.of, handling.ok, handling.mode, handling.got)
            /\ handling.of \in Picks /\ handling.ok \in BOOLEAN /\ handling.mode \in Modes
            /\ handling.got \in Seq(Placed)
        BY <1>7, <3>2, <4>0, ClearedHasPick DEF Settle, TypeOK
      <4> QED
        BY <4>1, AnswersAre
    <3> QED
      BY <3>1, <3>2
  <2>4. ASSUME NEW p \in Picks, NEW i \in DOMAIN settled'[p]
        PROVE  AllKept(settled'[p][i].files, cache')
    BY <2>1, <2>3 DEF CInv
  <2> QED
    BY <2>1, <2>2, <2>4 DEF CInv, AllKept
<1>8. CASE StoreMode \/ AddListener \/ StartActivity \/ ClearPending \/ UNCHANGED vars
  BY <1>1, <1>8 DEF StoreMode, AddListener, StartActivity, ClearPending, vars, TypeOK
<1>9. ASSUME NEW q \in Picks, NEW k \in Kinds, NEW m \in Modes, PickStored(q, k, m)
      PROVE CInv'
  BY <1>1, <1>9 DEF PickStored
<1> QED
  BY <1>3, <1>4, <1>5, <1>6, <1>7, <1>8, <1>9 DEF Next, JavaScript, UiThread

(* Whatever picks import, at once or one after the other and with copies   *)
(* that fail half-way: the path of an imported file keeps naming it.       *)
THEOREM ImportsAreKept == Spec => []ImportsKeepTheirFiles
<1>1. Init => CInv
  <2>1. DOMAIN (<<>>) = {}
    OBVIOUS
  <2> QED
    BY <2>1 DEF Init, CInv, AllKept, NoResult
<1>2. IInv /\ CInv /\ [Next]_vars => CInv'
  BY ImportStep DEF IInv
<1>3. CInv => ImportsKeepTheirFiles
  BY DEF CInv, AllKept, Kept, ImportsKeepTheirFiles
<1> QED
  BY <1>1, <1>2, <1>3, PickerInvariant, PTL DEF Spec
=============================================================================
