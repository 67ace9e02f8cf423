------------------------------- MODULE Results -------------------------------
(***************************************************************************)
(* Rust's Option and Result: an Option is a set of at most one element, a  *)
(* Result a record whose err is "" on success.                             *)
(***************************************************************************)

Ok(v) == [err |-> "", ok |-> v]
Err(e) == [err |-> e]
IsErr(r) == r.err # ""
Sole(opt) == CHOOSE x \in opt : TRUE

\* The `?` of the code: an error is returned, a value is used once.
Then(r, F(_)) == Sole({IF IsErr(x) THEN x ELSE F(x.ok) : x \in {r}})
=============================================================================
