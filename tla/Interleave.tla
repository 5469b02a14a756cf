----------------------------- MODULE Interleave -----------------------------
(***************************************************************************)
(* vector::interleave, which mixes the source and the repair packets of a  *)
(* block so that a burst of losses on the link takes some of both.         *)
(*                                                                         *)
(* The iterator visits the positions total - 1 down to 0 and at each one   *)
(* pops the shorter or the longer vector.  An item is named by its vector  *)
(* and its position there, 1 being the first; a vector is the number of    *)
(* items left in it.  The order found here is what EsiOrder stands for in  *)
(* module Codec: which packet of a block leaves the encoder first, second, *)
(* and so on.                                                              *)
(***************************************************************************)
EXTENDS Integers, Sequences

CONSTANT MaxLen   \* bound on the length of an argument

ASSUME InterleaveAssumption == MaxLen \in Nat

VARIABLES
  long_len, short_len,   \* lengths of the longer and the shorter vector
  long, short,           \* items left in each
  short_idx,             \* the counter captured by the closure
  left,                  \* positions not visited: the next idx is left - 1
  yielded                \* what the iterator has returned

vars == <<long_len, short_len, long, short, short_idx, left, yielded>>

total_len == long_len + short_len

Item == [vector : {"long", "short"}, position : Nat]

TypeOK ==
  /\ long_len \in Nat /\ short_len \in Nat
  /\ short_len <= long_len
  /\ long \in 0 .. long_len
  /\ short \in 0 .. short_len
  /\ short_idx \in 0 .. short_len
  /\ left \in 0 .. total_len
  /\ yielded \in Seq(Item)

(* v1 and v2 are compared and become long and short.                       *)
Init ==
  /\ long_len \in 0 .. MaxLen
  /\ short_len \in 0 .. long_len
  /\ long = long_len
  /\ short = short_len
  /\ short_idx = 0
  /\ left = total_len
  /\ yielded = << >>

(* Mutants: the target of the position before, and a target that spreads   *)
(* the shorter vector over the length of the longer one.                   *)
targetOneEarly == total_len - (short_idx * total_len) \div short_len
targetOverLong == total_len - (short_idx * long_len) \div short_len - 1

target == total_len - (short_idx * total_len) \div short_len - 1

TakesShort == short_idx < short_len /\ left - 1 = target

(* Vec::pop on an empty vector returns None, which filter_map skips.       *)
Pop(vector, n) ==
  IF n = 0 THEN yielded
           ELSE Append(yielded, [vector |-> vector, position |-> n])

Rest(n) == IF n = 0 THEN 0 ELSE n - 1

PopShort ==
  /\ left > 0
  /\ TakesShort
  /\ short_idx' = short_idx + 1
  /\ yielded' = Pop("short", short)
  /\ short' = Rest(short)
  /\ left' = left - 1
  /\ UNCHANGED <<long_len, short_len, long>>

PopLong ==
  /\ left > 0
  /\ ~TakesShort
  /\ yielded' = Pop("long", long)
  /\ long' = Rest(long)
  /\ left' = left - 1
  /\ UNCHANGED <<long_len, short_len, short, short_idx>>

Exhausted == left = 0 /\ UNCHANGED vars

Next == PopShort \/ PopLong \/ Exhausted

Spec == Init /\ [][Next]_vars

-----------------------------------------------------------------------------
(* Every item of both vectors is yielded, exactly once: the rounding of    *)
(* the targets neither skips a repair packet nor pops an empty vector.     *)
EveryItemOnce ==
  left = 0 =>
    /\ Len(yielded) = total_len
    /\ \A i \in 1 .. long_len : \E k \in 1 .. Len(yielded) :
         yielded[k] = [vector |-> "long", position |-> i]
    /\ \A i \in 1 .. short_len : \E k \in 1 .. Len(yielded) :
         yielded[k] = [vector |-> "short", position |-> i]

(* "The elements from the shorter vector are distributed approximately     *)
(* evenly across the longer vector": the first n items hold their exact    *)
(* share n * short_len / total_len of the shorter vector, rounded up.      *)
EvenlySpread ==
  LET n == total_len - left IN
    /\ n * short_len <= short_idx * total_len
    /\ total_len > 0 => short_idx * total_len < n * short_len + total_len
=============================================================================
