------------------------- MODULE MCProfileExtraction --------------------------
EXTENDS ProfileExtraction, TLC

MCNames == {"_wrapper", "f", "g", "h"}
Ev(k, f, l) == [kind |-> k, fn |-> f, line |-> l]
Out(evs, exc, post, ends) ==
  [events |-> evs, exc |-> exc, post |-> post, left |-> Kept, ends |-> ends]

Two(f, g) == << Ev("call", f, 0), Ev("call", g, 0), Ev("line", g, 1),
                Ev("return", g, 1), Ev("return", f, 0) >>
One(f) == << Ev("call", f, 0), Ev("line", f, 1), Ev("return", f, 1) >>
Raise(f) == << Ev("call", f, 0), Ev("exception", f, 0), Ev("return", f, 0) >>

Always(evs, exc) == [s \in {0, 1} |-> Out(evs, exc, Kept, TRUE)]

(* x and z are lists, y a tuple; the programs do with z what they do with  *)
(* x, but for the one that changes x into z.                               *)
MCValues == {"x", "y", "z"}
On(x, y) == [v \in MCValues |-> IF v = "y" THEN y ELSE x]

MCPrograms == {"base", "renamed", "merged", "longer", "counting", "failing",
               "hanging", "inplace"}
MCDoes == [p \in MCPrograms |->
  CASE p = "base" -> On(Always(Two("f", "g"), NoError), Always(One("g"), NoError))
    [] p = "renamed" ->                 \* f and g exchanged
         On(Always(Two("g", "f"), NoError), Always(One("f"), NoError))
    [] p = "merged" ->                  \* y is answered by the other function
         On(Always(Two("f", "g"), NoError), Always(One("f"), NoError))
    [] p = "longer" ->                  \* as base, up to the cap
         On(Always(Two("f", "g") \o One("h"), NoError), Always(One("g"), NoError))
    [] p = "counting" ->                \* a mutable default argument
         On([s \in {0, 1} |->
               Out(IF s = 0 THEN One("f") ELSE Two("f", "g"), NoError, 1 - s, TRUE)],
            Always(One("f"), NoError))
    [] p = "failing" ->                 \* raises once, then exits
         On([s \in {0, 1} |->
               Out(Raise("f"), IF s = 0 THEN "ValueError" ELSE "SystemExit", 1, TRUE)],
            Always(Raise("f"), "ValueError"))
    [] p = "hanging" ->                 \* x never returns
         On([s \in {0, 1} |-> Out(One("f"), NoError, 1, FALSE)],
            [s \in {0, 1} |->
               Out(IF s = 0 THEN One("f") ELSE Two("f", "g"), NoError, Kept, TRUE)])
    [] OTHER ->                         \* removes from a list while it reads it
         [On(Always(One("f"), NoError), Always(One("f"), NoError)) EXCEPT
            !["x"] = [s \in {0, 1} |->
                        [Out(Two("f", "g"), NoError, Kept, TRUE)
                           EXCEPT !.left = "z"]]]]
MCInputLists == {<<"x", "y">>, <<"y", "x">>}
MCTuples == {"y"}
=============================================================================
