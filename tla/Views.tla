-------------------------------- MODULE Views --------------------------------
(***************************************************************************)
(* How read, write, readv, writev and writeFile turn buffers, offsets and  *)
(* lengths into the memory the native layer works on, and how Stats and    *)
(* Dirent turn mode words into kinds.                                      *)
(*                                                                         *)
(* A Buffer is a view of a store that other Buffers may share; the native  *)
(* functions take the store, an offset into it and a length.  A call is    *)
(* chosen once and made in one step.                                       *)
(***************************************************************************)
EXTENDS Integers, Sequences, SequencesExt

CONSTANTS StoreSize,   \* cells of the store
          MaxViews,    \* bound on the views handed to readv or writev
          Absent       \* an argument that is undefined

ASSUME SizesAreNat == {StoreSize, MaxViews} \subseteq Nat
ASSUME AbsentIsNoLength == Absent \notin Nat

Cells == 0..StoreSize - 1
Views == {v \in [at : 0..StoreSize, len : 0..StoreSize] : v.at + v.len <= StoreSize}
Lengths == 0..StoreSize \union {Absent}

Given(arg, default) == IF arg = Absent THEN default ELSE arg

(* read and write as they are called with all their arguments, some of     *)
(* them undefined (an argument that is left out is the same to readSync    *)
(* and writeSync); the offset and the length lie within the view.          *)
Scalars == {c \in [op : {"readSync", "read", "writeSync", "write", "writeShort"},
                   views : BoundedSeq(Views, 1) \ {<<>>}, off : Lengths, len : Lengths] :
              Given(c.off, 0) + Given(c.len, 0) <= c.views[1].len}
Vectors == [op : {"readv", "writev"}, views : BoundedSeq(Views, MaxViews)]
Files == [op : {"writeFile"}, views : BoundedSeq(Views, 1) \ {<<>>}]

VARIABLES call,   \* what the program calls
          made,   \* the call has been made
          store,  \* which byte of the file each cell was given, 0 for none
          sent    \* the cells whose bytes were written, in order

vars == <<call, made, store, sent>>

Init ==
  /\ call \in Scalars \union Vectors \union Files
  /\ made = FALSE
  /\ store = [c \in Cells |-> 0]
  /\ sent = <<>>

-----------------------------------------------------------------------------
(* The native layer moves n of the bytes it was asked for, in order; it    *)
(* refuses what does not fit in the store.                                 *)
Run(from, len) == [i \in 1..len |-> from + i - 1]
NativeRuns(from, len) ==
  IF from + len > StoreSize THEN {<<>>} ELSE {Run(from, n) : n \in 0..len}

(* The store after the bytes of the file were put into these cells.        *)
Filled(cells) ==
  [c \in Cells |-> LET at == {i \in DOMAIN cells : cells[i] = c}
                   IN IF at = {} THEN 0 ELSE CHOOSE i \in at : \A j \in at : j <= i]

(* Slip: an offset into the buffer is taken for one into its store. *)
OffsetInView(v, off) == off

OffsetInStore(v, off) == v.at + off

ReadLength(v, off, len) == Given(len, v.len - off)

(* write passes a length on to writeSync, which takes 0 for none given.    *)
WriteLength(c, v, off) ==
  LET len == CASE c.op = "writeSync" -> Given(c.len, 0)
               [] c.op = "write" -> Given(c.len, v.len)
               [] c.op = "writeShort" -> Given(c.len, v.len - off)
  IN IF len = 0 THEN v.len - off ELSE len

Scalar ==
  LET v == call.views[1]
      off == Given(call.off, 0)
      from == OffsetInStore(v, off)
  IN IF call.op \in {"readSync", "read"}
       THEN /\ \E run \in NativeRuns(from, ReadLength(v, off, call.len)) : store' = Filled(run)
            /\ UNCHANGED sent
       ELSE /\ sent' \in NativeRuns(from, WriteLength(call, v, off))
            /\ UNCHANGED store

(* The cells of views one after the other.                                 *)
CellsOf(views) ==
  LET upto[i \in 0..Len(views)] ==
        IF i = 0 THEN <<>> ELSE upto[i - 1] \o Run(views[i].at, views[i].len)
  IN upto[Len(views)]

(* readv and writev hand over copies of the views; readv copies back into  *)
(* one view after the other, as long as there are bytes left.              *)
Least(m, n) == IF m <= n THEN m ELSE n

CopyInto(v, done, total) ==
  LET copied == Least(v.len, total - done.offset)
  IN IF done.offset >= total
       THEN done
       ELSE [offset |-> done.offset + copied,
             store |-> [c \in Cells |-> IF c \in v.at..v.at + copied - 1
                                          THEN done.offset + (c - v.at) + 1
                                          ELSE done.store[c]]]

CopyBack(views, total) ==
  LET done[i \in 0..Len(views)] ==
        IF i = 0 THEN [offset |-> 0, store |-> store]
        ELSE CopyInto(views[i], done[i - 1], total)
  IN done[Len(views)].store

Readv ==
  /\ \E total \in 0..Len(CellsOf(call.views)) : store' = CopyBack(call.views, total)
  /\ UNCHANGED sent

Writev ==
  /\ \E total \in 0..Len(CellsOf(call.views)) : sent' = SubSeq(CellsOf(call.views), 1, total)
  /\ UNCHANGED store

(* writeFile hands over the store of the buffer and nothing else.          *)
WriteFile ==
  /\ sent' = Run(0, StoreSize)
  /\ UNCHANGED store

MakeCall ==
  /\ ~made /\ made' = TRUE
  /\ \/ call.op \in {"readSync", "read", "writeSync", "write", "writeShort"} /\ Scalar
     \/ call.op = "readv" /\ Readv
     \/ call.op = "writev" /\ Writev
     \/ call.op = "writeFile" /\ WriteFile
  /\ UNCHANGED call

Spec == Init /\ [][MakeCall]_vars

-----------------------------------------------------------------------------
(* Kinds of files, as the bits of the format in a mode word.               *)

Format == [fifo |-> {1}, char |-> {2}, dir |-> {4}, block |-> {2, 4},
           file |-> {8}, link |-> {2, 8}, socket |-> {4, 8}]

(* What Stats and the Dirents of readdir say of a mode: its format is that *)
(* of the kind; the bits of the kind are among its own.                    *)
StatsSays(bits) == {k \in DOMAIN Format : bits = Format[k]}
DirentSays(bits) == {k \in DOMAIN Format : Format[k] \subseteq bits}

(* Dirents never miss the kind, and say nothing else of files and          *)
(* directories; a link is taken for a file as well.                        *)
ASSUME DirentsKnowFilesAndDirectories ==
  /\ \A k \in DOMAIN Format : StatsSays(Format[k]) = {k} /\ k \in DirentSays(Format[k])
  /\ \A k \in {"file", "dir"} : DirentSays(Format[k]) = {k}
  /\ DirentSays({}) = {}

-----------------------------------------------------------------------------
(* Properties                                                              *)

(* The cells the program means: those of its views, from the offset on, as *)
(* many as the length says or as there are.                                *)
Meant ==
  IF call.op \in {"readv", "writev", "writeFile"}
    THEN CellsOf(call.views)
    ELSE LET off == Given(call.off, 0)
         IN Run(call.views[1].at + off, Given(call.len, call.views[1].len - off))

(* The calls that are known to mean something else here.                   *)
WritesWhatIsLeft == call.op \in {"writeSync", "write", "writeShort"} /\ call.len = 0
WritesBeyond ==
  \/ call.op = "write" /\ call.len = Absent /\ call.off \notin {0, Absent}
  \/ call.op = "writeFile" /\ call.views[1].len < StoreSize

(* Buffers that share a store do not get into each other's way: whatever   *)
(* the views, offsets and lengths, what is read goes to the cells meant,   *)
(* in order, and every other cell keeps its contents, though readv reads   *)
(* into copies; what is written comes from the cells meant, in order.  A   *)
(* length of 0 writes the rest of the view.  Two calls write beyond it:    *)
(* write with an offset and a length left undefined, and writeFile.        *)
CallsKeepToTheirViews ==
  made =>
    /\ \E n \in 0..Len(Meant) : store = Filled(SubSeq(Meant, 1, n))
    /\ \/ WritesBeyond
       \/ WritesWhatIsLeft /\ \A i \in DOMAIN sent :
            sent[i] \in call.views[1].at..call.views[1].at + call.views[1].len - 1
       \/ IsPrefix(sent, Meant)

=============================================================================
