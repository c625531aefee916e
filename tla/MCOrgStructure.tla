-------------------------- MODULE MCOrgStructure --------------------------
(***************************************************************************)
(* One area with its department and section; a unit that may hang from     *)
(* either or from both and a plaza come and go; two administrators.        *)
(***************************************************************************)
EXTENDS OrgStructure, TLC

CONSTANTS a1, d1, s1

MCInit ==
    /\ rows = (a1 :> [parents |-> {}, deleted |-> FALSE])
              @@ (d1 :> [parents |-> {a1}, deleted |-> FALSE])
              @@ (s1 :> [parents |-> {a1}, deleted |-> FALSE])
    /\ op = [r \in Requests |-> NoOp]
    /\ done = [r \in Requests |-> 0]
    /\ pending = [r \in Requests |-> <<>>]
    /\ touched = [r \in Requests |-> {}]
MCSpec == MCInit /\ [][Next]_vars
Symmetry == Permutations(Requests)
=============================================================================
