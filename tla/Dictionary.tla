----------------------------- MODULE Dictionary -----------------------------
(***************************************************************************)
(* What rb_tree and avl_tree promise: a map from keys to values, under      *)
(* calls that store a value under a key, or remove a key, and return.      *)
(***************************************************************************)
EXTENDS Naturals

CONSTANTS Keys, ValuesOf

VARIABLES contents, asked

DictionaryInit == contents = [k \in {} |-> 0] /\ asked = <<"none">>

Put(k, v) ==
    /\ asked' = <<"put", k, v>>
    /\ contents' = [j \in DOMAIN contents \cup {k} |-> IF j = k THEN v ELSE contents[j]]

Remove(k) ==
    /\ asked' = <<"remove", k>>
    /\ contents' = [j \in DOMAIN contents \ {k} |-> contents[j]]

Answer == asked # <<"none">> /\ asked' = <<"none">> /\ UNCHANGED contents

DictionaryNext ==
    \/ /\ asked = <<"none">>
       /\ \E k \in Keys : Remove(k) \/ \E v \in ValuesOf[k] : Put(k, v)
    \/ Answer

DictionarySpec == DictionaryInit /\ [][DictionaryNext]_<<contents, asked>>
=============================================================================
