---------------------------- MODULE MCRoutesPage ----------------------------
(***************************************************************************)
(* Instances of RoutesPage: two browsers and three routes, one of each     *)
(* kind, whose order by path, by timeout and by require_auth differs from  *)
(* that of the list.                                                       *)
(***************************************************************************)
EXTENDS RoutesPage, TLC

CONSTANTS b1, b2

\* "/{" is a path of which no regular expression is made: no router has it.
MCRank == [p \in {"", "/a", "/b", "/c"} |->
             CASE p = "" -> 0 [] p = "/a" -> 1 [] p = "/b" -> 2 [] p = "/c" -> 3]

MCFirstRoutes ==
  <<[path |-> "/b", timeout |-> 300, require_auth |-> TRUE, backends |-> <<"u", "v">>],
    [path |-> "/a", timeout |-> 200, require_auth |-> FALSE, backend |-> "u"],
    [path |-> "/c", timeout |-> 100, require_auth |-> FALSE, handler |-> "status"]>>

\* Kept is what SelectSeq would leave.
ASSUME KeptAssumption ==
  \A n \in 0..4 : \A list \in [1..n -> {" ", "u", "v"}] :
    Kept(list, {i \in 1..n : IsText(list[i])}) = SelectSeq(list, IsText)

BrowserSymmetry == Permutations(Browsers)
=============================================================================
