------------------------------ MODULE MCCodec ------------------------------
(* Instances of Codec for model checking.                                  *)
EXTENDS Codec

(* The order in which vector::interleave yields two source packets (esi 0  *)
(* and 1) and one repair packet (esi 2), or no repair packet.              *)
TwoSourcesOneRepair == <<2, 1, 0>>
TwoSourcesNoRepair  == <<1, 0>>

(* The decoder as run_decoder uses it: the owner calls wait at once and    *)
(* never calls stop.  Nothing but the owner's own state is lost: stop has  *)
(* the effect of an end of input, which may come at any time.              *)
AsRunDecoder ==
  /\ ~should_stop'
  /\ caller = "started" => caller' = "waiting"
=============================================================================
