----------------------------- MODULE SessionLife -----------------------------
(* What the orchestrator promises about each session, whatever calls are made *)
(* at the same time: a session is built once, is installed at most once and   *)
(* only when no other is, is stopped only after it was installed, and is      *)
(* stopped once.  A session whose start failed is abandoned, for good.        *)
CONSTANT Sessions
VARIABLE life

Init == life = [s \in Sessions |-> "fresh"]

Moves == {<<"fresh", "building">>, <<"building", "abandoned">>, <<"building", "installed">>,
          <<"installed", "stopping">>, <<"stopping", "ended">>}

\* One session moves on; it is installed only when no other is.
Move(s) ==
  /\ <<life[s], life'[s]>> \in Moves
  /\ life' = [life EXCEPT ![s] = life'[s]]
  /\ life'[s] = "installed" => \A t \in Sessions : life[t] # "installed"

Next == \E s \in Sessions : Move(s)

Spec == Init /\ [][Next]_life
=============================================================================
