---------------------------- MODULE MCFileBackup ----------------------------
(* A small instance of FileBackup: three backups and five source trees.     *)
EXTENDS FileBackup, TLC

CONSTANTS b1, b2, b3, missing

AllBackups == {b1, b2, b3}

Sym == Permutations(AllBackups)

AllNames == {"a", "b", "c"}

d(n) == [name |-> n, kind |-> "dir"]
f(n) == [name |-> n, kind |-> "file"]
l(n) == [name |-> n, kind |-> "link"]

\* No entries; two files; a directory and a file, one name a file above; a tree
\* with no file of the others; and one with a link after a file.
AllTrees == {<<>>, <<f("a"), f("b")>>, <<d("a"), f("b")>>, <<f("c")>>,
             <<f("b"), l("c")>>}

=============================================================================
