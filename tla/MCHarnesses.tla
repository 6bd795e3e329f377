---------------------------- MODULE MCHarnesses -----------------------------
(* Two interleaved programs with two pairs each, a third one with one pair *)
(* that a pool of two threads must keep waiting.                           *)
EXTENDS Harnesses

MCPairs == << [id |-> "p1", base |-> "b2"], [id |-> "p2", base |-> "b1"],
              [id |-> "p3", base |-> "b2"], [id |-> "p4", base |-> "b1"],
              [id |-> "p5", base |-> "b3"] >>
MCProgs == <<"b1", "b2", "b3">>
=============================================================================
