------------------------- MODULE MCWitnessSchedule -------------------------
(* Instances of WitnessSchedule for TLC.                                   *)
EXTENDS WitnessSchedule

NoVotes == [w \in Witness |-> 0]

\* Votes change through long rounds without gaps.
Votes == [gaps |-> {0}, deltas |-> {1, -1}, updates |-> {},
          headers |-> {<<0, <<0, 0>> >>}, maxHead |-> 8]
\* Keys and fees change while slots are missed.
Rounds == [gaps |-> {0, 2}, deltas |-> {},
           updates |-> {<<TRUE, 0>>, <<FALSE, 0>>, <<TRUE, 1>>},
           headers |-> {<<0, <<0, 0>> >>}, maxHead |-> 5]

\* Keys change while slots are missed and a hardfork is voted for.
Hardforks == [gaps |-> {0, 2}, deltas |-> {},
              updates |-> {<<TRUE, 0>>, <<FALSE, 0>>},
              headers |-> {<<0, <<0, 0>> >>, <<1, <<1, 7>> >>}, maxHead |-> 5]

\* Three rounds before the time of the hardfork: its majority may be gone by then.
Withdrawals == [Hardforks EXCEPT !.gaps = {0}, !.maxHead = 7]

AllWorlds == {Votes, Rounds, Hardforks, Withdrawals}
=============================================================================
