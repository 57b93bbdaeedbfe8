------------------------------- MODULE FlatFiles -------------------------------
(***************************************************************************)
(* What the overlay promises to a program that works with whole files: a   *)
(* map from names to contents, without layers, markers or copies.  A call  *)
(* that fails changes nothing.                                             *)
(***************************************************************************)
EXTENDS Sequences

CONSTANTS Names, Values

VARIABLE files    \* by name, a content, or NoFile

\* A file is a sequence of written pieces in a sequence of length one.
NoFile == <<>>
File(content) == <<content>>

Put(n, file) == files' = [files EXCEPT ![n] = file]

Write(n, v) == Put(n, File(<<v>>))
CreateExclusive(n, v) == files[n] = NoFile /\ Put(n, File(<<v>>))
AppendTo(n, v) == files[n] # NoFile /\ Put(n, File(Append(files[n][1], v)))
Empty(n) == files[n] # NoFile /\ Put(n, File(<<>>))
Remove(n) == files[n] # NoFile /\ Put(n, NoFile)
Move(old, new) ==
    /\ files[old] # NoFile /\ old # new
    /\ files' = [files EXCEPT ![new] = files[old], ![old] = NoFile]

Next ==
    \/ \E n \in Names, v \in Values : Write(n, v) \/ CreateExclusive(n, v) \/ AppendTo(n, v)
    \/ \E n \in Names : Empty(n) \/ Remove(n)
    \/ \E old, new \in Names : Move(old, new)

Spec == [][Next]_files
==============================================================================
