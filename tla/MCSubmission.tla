---------------------------- MODULE MCSubmission ----------------------------
(* Small instances of Submission for TLC. *)
EXTENDS Submission

Token(b, up, k) == [box |-> b, upper |-> up, kind |-> k]

\* An address twice, in capitals first or last; a file of what is no address; the
\* outcomes of the two validations side by side.
Files == {<<Token("a", TRUE, "address"), Token("a", FALSE, "address"),
            Token("b", FALSE, "address")>>,
          <<Token("b", FALSE, "address"), Token("a", FALSE, "address"),
            Token("b", TRUE, "address"), Token("b", FALSE, "address")>>,
          <<Token("e", FALSE, "word"), Token("d", FALSE, "broken"),
            Token("d", FALSE, "broken")>>,
          <<Token("b", FALSE, "address"), Token("d", FALSE, "broken"),
            Token("e", FALSE, "word"), Token("a", TRUE, "address"),
            Token("c", TRUE, "loose"), Token("c", FALSE, "loose")>>}

Posted    == {<<Token("a", TRUE, "address"), Token("a", FALSE, "address"),
                Token("a", TRUE, "address")>>,
              [i \in 1 .. 4 |-> Token("b", FALSE, "address")]}

Once == [k \in FaultKinds |-> 1]
==============================================================================
