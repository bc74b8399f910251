--------------------------------- MODULE DirTree ---------------------------------
(***************************************************************************)
(* dirTree of hw1_tree/main.go, which draws a directory.  Entries are      *)
(* numbers in the order of their names, and Root is the directory itself.  *)
(* A tree is [parent, dirs, closed]: where each entry lies, which entries  *)
(* are directories, and which directories cannot be read.  A drawn line is *)
(* [prefix, symbol, entry]; bar, tee and corner are the box characters.    *)
(***************************************************************************)
EXTENDS Naturals, FiniteSets, SequencesExt

Root == 0

-----------------------------------------------------------------------------
(* Faulty variants of some definitions below.                              *)

(* a bar under the last entry of a directory, too                          *)
AlwaysBar(last) == "bar"

-----------------------------------------------------------------------------
(* what is drawn of a directory: with printFiles everything                *)
Filter(t, d, printFiles) ==
  {e \in DOMAIN t.parent : t.parent[e] = d /\ (printFiles \/ e \in t.dirs)}

Sorted(entries) == SetToSortSeq(entries, <)

(* what the lines below an entry show of it                                *)
CurrentPrefix(last) == IF last THEN "blank" ELSE "bar"

(* The lines of a directory.  One that cannot be read has none, and only   *)
(* the caller of dirTree is told: the recursive call drops the error.      *)
RECURSIVE OSReadDir(_, _, _, _)
OSReadDir(t, d, prefix, printFiles) ==
  LET fileInfo == Sorted(Filter(t, d, printFiles))
      Lines(index) ==
        LET file == fileInfo[index]
            last == index = Len(fileInfo)
        IN  <<[prefix |-> prefix, symbol |-> IF last THEN "corner" ELSE "tee", entry |-> file]>>
            \o IF file \in t.dirs
               THEN OSReadDir(t, file, Append(prefix, CurrentPrefix(last)), printFiles)
               ELSE <<>>
  IN  IF d \in t.closed THEN <<>>
      ELSE FlattenSeq([index \in DOMAIN fileInfo |-> Lines(index)])

Draw(t, printFiles) ==
  [error |-> Root \in t.closed, lines |-> OSReadDir(t, Root, <<>>, printFiles)]

-----------------------------------------------------------------------------
(* The path of an entry from the root                                      *)
RECURSIVE Path(_, _)
Path(t, e) == IF e = Root THEN <<>> ELSE Append(Path(t, t.parent[e]), e)

(* Alphabetical order of paths, a directory before what it contains        *)
Precedes(p, q) ==
  p # q /\ \/ IsPrefix(p, q)
           \/ \E k \in DOMAIN p \cap DOMAIN q :
                p[k] < q[k] /\ SubSeq(p, 1, k - 1) = SubSeq(q, 1, k - 1)

(* What can be drawn: entries in no directory that cannot be read.  Whether *)
(* somebody ought to be told of those is left open.                        *)
Visible(t, printFiles) ==
  {e \in DOMAIN t.parent : /\ printFiles \/ e \in t.dirs
                           /\ Root \notin t.closed
                           /\ \A d \in ToSet(Front(Path(t, e))) : d \notin t.closed}

(* Each visible entry is drawn once, in the order of the paths, indented   *)
(* by its depth.                                                           *)
DrawsEntries(t, printFiles, lines) ==
  LET order == SetToSortSeq(Visible(t, printFiles),
                            LAMBDA e, f : Precedes(Path(t, e), Path(t, f)))
  IN  /\ [k \in DOMAIN lines |-> lines[k].entry] = order
      /\ \A k \in DOMAIN lines : Len(lines[k].prefix) + 1 = Len(Path(t, lines[k].entry))

(* The character in a column of a drawing                                  *)
At(lines, k, column) ==
  LET row == Append(lines[k].prefix, lines[k].symbol)
  IN  IF k \in DOMAIN lines /\ column \in DOMAIN row THEN row[column] ELSE "blank"

(* No line of the drawing begins or ends in the air: a character that goes *)
(* on downwards stands above one that comes from above, and the other way. *)
Connected(lines) ==
  \A k \in DOMAIN lines : \A column \in 1..Len(lines[k].prefix) + 1 :
    At(lines, k, column) \in {"bar", "tee"}
      <=> /\ k < Len(lines)
          /\ At(lines, k + 1, column) \in {"bar", "tee", "corner"}
=================================================================================
