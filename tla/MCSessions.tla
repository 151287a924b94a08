----------------------------- MODULE MCSessions -----------------------------
(* Instances of Sessions for TLC. *)
EXTENDS Sessions, TLC

CONSTANTS t1, t2, t3, t4, phone, laptop, r1, r2, r3, alice

(* One user, a browser with two connections and a native client with one.  *)
MCClientOf == [r \in Requests |-> IF r = r3 THEN phone ELSE laptop]
MCUserOf   == laptop :> alice @@ phone :> alice

(* The two slots of the laptop are interchangeable, and so are the tokens. *)
MCSymmetry == Permutations(Tokens) \cup Permutations({r1, r2} \cap Requests)
=============================================================================
