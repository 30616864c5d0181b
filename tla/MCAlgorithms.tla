----------------------------- MODULE MCAlgorithms -----------------------------
(***************************************************************************)
(* The instances of the five studies.  The matrix is a 2x2 design: retries *)
(* off or replaced as a dictionary, and a field of a section the base does *)
(* not have, with levels whose order as texts is not the order they are    *)
(* written in.                                                             *)
(***************************************************************************)
EXTENDS Algorithms, TLC

MCCensored == -1

MCBase ==
  (<<"name">> :> "base") @@ (<<"policy">> :> "dict")
    @@ (<<"policy", "retry">> :> "dict") @@ (<<"policy", "retry", "max">> :> "3")

Level(text, rank, tree) ==
  [json |-> text, eq |-> text, text |-> text, rank |-> rank, tree |-> tree]

MCFactors ==
  << [path   |-> <<"policy", "retry">>,
      levels |-> << Level("None", 1, <<>>),
                    Level("{max}", 2, (<<>> :> "dict") @@ (<<"max">> :> "2")) >>],
     [path   |-> <<"workload", "clients">>,
      levels |-> << Level("8", 2, <<>> :> "8"), Level("16", 1, <<>> :> "16") >>] >>

\* No record says which client sent the request.
MCSymmetry == Permutations(Clients)
===============================================================================
