------------------------------ MODULE MCPaging ------------------------------
(* Three rows at first, in all parts of the collection.                    *)
EXTENDS Paging, TLC

\* Row 3 has no serial number.  Row 2 shares its own with a row that is there
\* from the start, or with one that may be added.
Shared(other) == [key \in Keys |-> CASE key \in {2, other} -> "shared"
                                     [] key = 3            -> Blank
                                     [] OTHER              -> ToString(key)]
MCSerials == {Shared(4), Shared(5)}
=============================================================================
