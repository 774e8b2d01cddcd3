---------------------------- MODULE SharedValue ----------------------------
(***************************************************************************)
(* What a reference-counted cache promises for one key: the values its     *)
(* clients hold at any moment are one value, whoever produced it.          *)
(***************************************************************************)
CONSTANTS Refs, Objs, Nil

VARIABLE got          \* client reference |-> the value it holds, or Nil

Init == got = [r \in Refs |-> Nil]

\* A client is given the value the others hold, or any value if nobody has one.
Obtain(r) ==
    /\ got[r] = Nil
    /\ \E v \in Objs :
         /\ \A s \in Refs : got[s] \in {Nil, v}
         /\ got' = [got EXCEPT ![r] = v]

Drop(r) ==
    /\ got[r] # Nil
    /\ got' = [got EXCEPT ![r] = Nil]

Next == \E r \in Refs : Obtain(r) \/ Drop(r)

Spec == Init /\ [][Next]_got
=============================================================================
