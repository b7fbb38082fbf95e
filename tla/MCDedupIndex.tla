---------------------------- MODULE MCDedupIndex ----------------------------
(***************************************************************************)
(* EmbeddedIndex on documents cut out of a file.  They are                 *)
(*   y  "a e"    x  "a e b"    z  "e b"    t  "A-E"    n  "7"              *)
(* so that y and z both resemble x but not each other (similarity is not   *)
(* transitive), y and t are the same text but for case and separators, and *)
(* n has no letter.  Three of them cut a word of the file.                 *)
(***************************************************************************)
EXTENDS EmbeddedIndex

Slice(offset, size) == [Offset |-> offset, TextSize |-> size]
Slices == {Slice(1, 3), Slice(1, 5), Slice(3, 3), Slice(7, 3), Slice(10, 5)}

Text    == <<"b", "a", " ", "e", " ", "b", "7", "A", "-", "E", "7">>
Letters == [char \in {"a", "A", "b", "B", "e", "E"} |->
              CASE char \in {"a", "A"} -> "a" [] char \in {"b", "B"} -> "b" [] OTHER -> "e"]

\* The terms "a" and "e" collide.
Hash(term) == CASE term = <<"a">> -> 0 [] term = <<"b">> -> 3 [] term = <<"e">> -> 4
                [] OTHER -> 1
=============================================================================
