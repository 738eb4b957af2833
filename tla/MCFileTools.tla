---------------------------- MODULE MCFileTools ----------------------------
(* TLC instance of FileTools: two edits, of which the second can follow on *)
(* the first, a write, a deletion and a read, of short texts.              *)
EXTENDS FileTools, TLC

CONSTANTS e1, e2, w, d, r

Ops ==
    (e1 :> [tool |-> "edit", old |-> <<"a", "a">>, new |-> <<"b">>])
    @@ (e2 :> [tool |-> "edit", old |-> <<"b">>, new |-> <<"a", NL, "b">>])
    @@ (w :> [tool |-> "write", text |-> <<"a", "a", "b">>])
    @@ (d :> [tool |-> "delete"])
    @@ (r :> [tool |-> "read", offset |-> 1, limit |-> 1])

Letters == {"a", "b", NL}

ShortTexts == UNION {[1..n -> Letters] : n \in 0..4}
=============================================================================
