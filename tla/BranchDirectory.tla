---------------------------- MODULE BranchDirectory ----------------------------
(***************************************************************************)
(* What the clients of BranchService expect of it: each branch opened by   *)
(* name has an id no branch has and a name no branch has, and stays under  *)
(* that id, whatever is opened after it, until everything is deleted.      *)
(***************************************************************************)
CONSTANT Names

VARIABLES
    branches,   \* id to name
    issued      \* the <<id, name>> of the branches opened by name

directory == <<branches, issued>>

Enter(id, n) ==
    branches' = [i \in DOMAIN branches \cup {id} |->
                   IF i = id THEN n ELSE branches[i]]

Init ==
    /\ DOMAIN branches = {}
    /\ issued = {}

Open(id, n) ==
    /\ id \notin DOMAIN branches
    /\ \A i \in DOMAIN branches : branches[i] # n
    /\ \A p \in issued : p[1] # id
    /\ Enter(id, n)
    /\ issued' = issued \cup {<<id, n>>}

\* A client lists a branch of its own, or one it knows with another name.
Register(id, n) ==
    /\ Enter(id, n)
    /\ UNCHANGED issued

Clear ==
    /\ DOMAIN branches' = {}
    /\ issued' = {}

Next ==
    \/ \E id \in DOMAIN branches', n \in Names : Open(id, n) \/ Register(id, n)
    \/ Clear

Spec == Init /\ [][Next]_directory

==============================================================================
