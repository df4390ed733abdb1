----------------------------- MODULE MCRecorders -----------------------------
(***************************************************************************)
(* Recorders for TLC: a vhost with HLS, vhosts with each plan of DVR, and  *)
(* one with both, whose stream is shorter.                                 *)
(***************************************************************************)
EXTENDS Recorders

MCVhosts == {[hls |-> TRUE, dvr |-> "off"], [hls |-> TRUE, dvr |-> "session"]}
              \cup {[hls |-> FALSE, dvr |-> plan] : plan \in Plans}

MCMaxClock == [v \in MCVhosts |-> IF v.hls /\ v.dvr # "off" THEN 3 ELSE 9]
==============================================================================
