-------------------------- MODULE InterleaveProofs --------------------------
(***************************************************************************)
(* interleave yields every packet once and spreads them evenly, for        *)
(* vectors of any length.                                                  *)
(***************************************************************************)
EXTENDS Interleave, TLAPS

(* What the closure's counters say of one another: each vector has lost    *)
(* exactly the items that were yielded from it.                            *)
Counters ==
  /\ short = short_len - short_idx
  /\ long = long_len - ((total_len - left) - short_idx)
  /\ Len(yielded) = total_len - left

Popped ==
  /\ \A i \in long + 1 .. long_len : \E k \in 1 .. Len(yielded) :
       yielded[k] = [vector |-> "long", position |-> i]
  /\ \A i \in short + 1 .. short_len : \E k \in 1 .. Len(yielded) :
       yielded[k] = [vector |-> "short", position |-> i]

IInv == TypeOK /\ Counters /\ EvenlySpread /\ Popped

(* A quotient equals n exactly when the dividend lies in its n-th interval. *)
LEMMA QuotientIs ==
  ASSUME NEW a \in Nat, NEW d \in Nat \ {0}, NEW n \in Nat
  PROVE  a \div d = n <=> n * d <= a /\ a < n * d + d
OBVIOUS

(* The shorter vector is popped exactly when its share falls behind.       *)
LEMMA TakesShortWhenDue ==
  ASSUME IInv, left > 0
  PROVE  LET n == total_len - left IN
           TakesShort <=> short_idx < short_len
                          /\ n * short_len <= short_idx * total_len
                          /\ short_idx * total_len < n * short_len + short_len
<1> DEFINE n == total_len - left
<1>1. /\ n \in Nat /\ short_idx \in Nat /\ short_len \in Nat
      /\ total_len \in Nat /\ left \in Nat
  BY DEF IInv, TypeOK, total_len
<1>2. short_idx * total_len \in Nat
  BY <1>1
<1>3. CASE short_idx < short_len
  <2>1. short_len \in Nat \ {0}
    BY <1>1, <1>3
  <2>2. (short_idx * total_len) \div short_len = n
          <=> /\ n * short_len <= short_idx * total_len
              /\ short_idx * total_len < n * short_len + short_len
    BY <1>1, <1>2, <2>1, QuotientIs
  <2>3. (short_idx * total_len) \div short_len \in Int
    BY <1>2, <2>1
  <2>4. left - 1 = target <=> (short_idx * total_len) \div short_len = n
    BY <1>1, <2>3 DEF target
  <2> QED
    BY <1>3, <2>2, <2>4 DEF TakesShort
<1>4. CASE ~(short_idx < short_len)
  BY <1>4 DEF TakesShort
<1> QED
  BY <1>3, <1>4

LEMMA InitIInv == Init => IInv
<1> SUFFICES ASSUME Init PROVE IInv
  OBVIOUS
<1>1. TypeOK
  BY InterleaveAssumption DEF Init, TypeOK, total_len, Item
<1>2. Counters /\ Popped
  BY <1>1 DEF Init, Counters, Popped, TypeOK, total_len
<1>3. EvenlySpread
  BY <1>1 DEF Init, EvenlySpread, TypeOK, total_len
<1> QED
  BY <1>1, <1>2, <1>3 DEF IInv

(* The shorter vector is not empty when its turn comes.                    *)
LEMMA PopShortKeepsIInv == IInv /\ PopShort => IInv'
<1> SUFFICES ASSUME IInv, PopShort PROVE IInv'
  OBVIOUS
<1> DEFINE n == total_len - left
           item == [vector |-> "short", position |-> short]
<1>1. /\ n \in Nat /\ n < total_len /\ short_idx \in Nat /\ short_len \in Nat
      /\ total_len \in Nat /\ short_idx < short_len /\ left > 0
      /\ left \in Nat /\ long \in Nat /\ long_len \in Nat
      /\ short \in Nat /\ yielded \in Seq(Item)
      /\ short_len <= total_len
  BY DEF IInv, TypeOK, total_len, PopShort, TakesShort
<1>2. short = short_len - short_idx /\ short # 0
  BY <1>1 DEF IInv, Counters
<1>3. /\ yielded' = Append(yielded, item)
      /\ short' = short - 1 /\ short_idx' = short_idx + 1 /\ left' = left - 1
      /\ long' = long /\ long_len' = long_len /\ short_len' = short_len
      /\ total_len' = total_len /\ (total_len - left)' = n + 1
  BY <1>1, <1>2 DEF PopShort, Pop, Rest, total_len
<1>4. item \in Item
  BY <1>1 DEF Item
<1>5. TypeOK'
  BY <1>1, <1>2, <1>3, <1>4 DEF TypeOK, IInv
<1>6. Counters'
  BY <1>1, <1>2, <1>3, <1>4 DEF Counters, IInv
<1>7. /\ n * short_len <= short_idx * total_len
      /\ short_idx * total_len < n * short_len + short_len
  BY <1>1, TakesShortWhenDue DEF PopShort
<1>8. EvenlySpread'
  <2>1. /\ (n + 1) * short_len = n * short_len + short_len
        /\ (short_idx + 1) * total_len = short_idx * total_len + total_len
        /\ n * short_len \in Nat /\ short_idx * total_len \in Nat
    BY <1>1
  <2> QED
    BY <1>1, <1>3, <1>7, <2>1 DEF EvenlySpread
<1>9. Popped'
  <2>1. /\ Len(yielded') = Len(yielded) + 1
        /\ yielded'[Len(yielded) + 1] = item
        /\ \A k \in 1 .. Len(yielded) : yielded'[k] = yielded[k]
    BY <1>1, <1>3, <1>4
  <2>2. Len(yielded) \in Nat
    BY <1>1
  <2>3. \A i \in short' + 1 .. short_len' : i = short \/ i \in short + 1 .. short_len
    BY <1>1, <1>3
  <2>4. \A i \in long + 1 .. long_len : \E k \in 1 .. Len(yielded') :
          yielded'[k] = [vector |-> "long", position |-> i]
    BY <2>1, <2>2 DEF IInv, Popped
  <2>5. \A i \in short + 1 .. short_len : \E k \in 1 .. Len(yielded') :
          yielded'[k] = [vector |-> "short", position |-> i]
    BY <2>1, <2>2 DEF IInv, Popped
  <2>6. \E k \in 1 .. Len(yielded') :
          yielded'[k] = [vector |-> "short", position |-> short]
    BY <2>1, <2>2
  <2> QED
    BY <1>3, <2>3, <2>4, <2>5, <2>6 DEF Popped
<1> QED
  BY <1>5, <1>6, <1>8, <1>9 DEF IInv

(* Nor is the longer one.                                                  *)
LEMMA LongIsNotEmpty ==
  ASSUME IInv, left > 0, ~TakesShort
  PROVE  /\ long # 0
         /\ ((total_len - left) + 1) * short_len <= short_idx * total_len
<1> DEFINE n == total_len - left
<1>1. /\ n \in Nat /\ n < total_len /\ short_idx \in Nat /\ short_len \in Nat
      /\ total_len \in Nat /\ long_len \in Nat /\ short_idx <= short_len
      /\ total_len = long_len + short_len /\ short_len <= long_len
      /\ long = long_len - (n - short_idx)
  BY DEF IInv, TypeOK, Counters, total_len
<1>2. /\ n * short_len <= short_idx * total_len
      /\ (n + 1) * short_len = n * short_len + short_len
  BY <1>1 DEF IInv, EvenlySpread
<1>3. CASE short_idx = short_len
  <2>1. long # 0
    BY <1>1, <1>3
  <2>2. (n + 1) * short_len <= total_len * short_len
    BY <1>1, n + 1 <= total_len
  <2> QED
    BY <1>1, <1>3, <2>1, <2>2
<1>4. CASE short_idx < short_len
  <2>1. (n + 1) * short_len <= short_idx * total_len
    BY <1>1, <1>2, <1>4, TakesShortWhenDue
  <2>2. ASSUME long = 0 PROVE FALSE
    <3>1. n = long_len + short_idx
      BY <1>1, <2>2
    <3>2. (long_len + short_idx) * short_len + short_len
            <= short_idx * (long_len + short_len)
      BY <1>1, <1>2, <2>1, <3>1
    <3>3. long_len * short_len + short_len <= short_idx * long_len
      BY <1>1, <3>2
    <3>4. short_idx * long_len <= short_len * long_len
      BY <1>1, <1>4
    <3> QED
      BY <1>1, <1>4, <3>3, <3>4
  <2> QED
    BY <2>1, <2>2
<1> QED
  BY <1>1, <1>3, <1>4

LEMMA PopLongKeepsIInv == IInv /\ PopLong => IInv'
<1> SUFFICES ASSUME IInv, PopLong PROVE IInv'
  OBVIOUS
<1> DEFINE n == total_len - left
           item == [vector |-> "long", position |-> long]
<1>1. /\ n \in Nat /\ n < total_len /\ short_idx \in Nat /\ short_len \in Nat
      /\ total_len \in Nat /\ left > 0 /\ short_idx <= short_len
      /\ left \in Nat /\ long \in Nat /\ long_len \in Nat
      /\ short \in Nat /\ yielded \in Seq(Item)
  BY DEF IInv, TypeOK, total_len, PopLong
<1>2. long # 0 /\ (n + 1) * short_len <= short_idx * total_len
  BY <1>1, LongIsNotEmpty DEF PopLong
<1>3. /\ yielded' = Append(yielded, item)
      /\ long' = long - 1 /\ short_idx' = short_idx /\ left' = left - 1
      /\ short' = short /\ long_len' = long_len /\ short_len' = short_len
      /\ total_len' = total_len /\ (total_len - left)' = n + 1
  BY <1>1, <1>2 DEF PopLong, Pop, Rest, total_len
<1>4. item \in Item
  BY <1>1 DEF Item
<1>5. TypeOK'
  BY <1>1, <1>2, <1>3, <1>4 DEF TypeOK, IInv
<1>6. Counters'
  BY <1>1, <1>2, <1>3, <1>4 DEF Counters, IInv
<1>8. EvenlySpread'
  <2>1. /\ (n + 1) * short_len = n * short_len + short_len
        /\ n * short_len \in Nat /\ short_idx * total_len \in Nat
    BY <1>1
  <2>2. short_idx * total_len < n * short_len + total_len
    BY <1>1 DEF IInv, EvenlySpread
  <2> QED
    BY <1>1, <1>2, <1>3, <2>1, <2>2 DEF EvenlySpread
<1>9. Popped'
  <2>1. /\ Len(yielded') = Len(yielded) + 1
        /\ yielded'[Len(yielded) + 1] = item
        /\ \A k \in 1 .. Len(yielded) : yielded'[k] = yielded[k]
    BY <1>1, <1>3, <1>4
  <2>2. Len(yielded) \in Nat
    BY <1>1
  <2>3. \A i \in long' + 1 .. long_len' : i = long \/ i \in long + 1 .. long_len
    BY <1>1, <1>3
  <2>4. \A i \in long + 1 .. long_len : \E k \in 1 .. Len(yielded') :
          yielded'[k] = [vector |-> "long", position |-> i]
    BY <2>1, <2>2 DEF IInv, Popped
  <2>5. \A i \in short + 1 .. short_len : \E k \in 1 .. Len(yielded') :
          yielded'[k] = [vector |-> "short", position |-> i]
    BY <2>1, <2>2 DEF IInv, Popped
  <2>6. \E k \in 1 .. Len(yielded') :
          yielded'[k] = [vector |-> "long", position |-> long]
    BY <2>1, <2>2
  <2> QED
    BY <1>3, <2>3, <2>4, <2>5, <2>6 DEF Popped
<1> QED
  BY <1>5, <1>6, <1>8, <1>9 DEF IInv

(* At the end both vectors are empty, so everything has been yielded.      *)
LEMMA IInvImpliesEveryItemOnce == IInv => EveryItemOnce
<1> SUFFICES ASSUME IInv, left = 0 PROVE /\ short = 0 /\ long = 0
  BY DEF IInv, Counters, Popped, EveryItemOnce, TypeOK, total_len
<1>1. /\ short_idx \in Nat /\ short_len \in Nat /\ total_len \in Nat
      /\ long_len \in Nat /\ short_idx <= short_len
      /\ total_len = long_len + short_len
  BY DEF IInv, TypeOK, total_len
<1>2. total_len * short_len <= short_idx * total_len
  BY <1>1 DEF IInv, EvenlySpread
<1>3. short_idx = short_len
  BY <1>1, <1>2
<1> QED
  BY <1>1, <1>3 DEF IInv, Counters

(* The invariant is inductive.                                             *)
LEMMA IInvInvariant == Spec => []IInv
<1>1. IInv /\ [Next]_vars => IInv'
  <2>1. IInv /\ UNCHANGED vars => IInv'
    BY DEF IInv, TypeOK, Counters, EvenlySpread, Popped, total_len, vars
  <2> QED
    BY <2>1, PopShortKeepsIInv, PopLongKeepsIInv DEF Next, Exhausted
<1> QED
  BY <1>1, InitIInv, PTL DEF Spec

(* The counters of interleave stay in range, for vectors of any length.    *)
THEOREM InterleaveTypeOK == Spec => []TypeOK
<1>1. IInv => TypeOK
  BY DEF IInv
<1> QED
  BY <1>1, IInvInvariant, PTL

(* interleave yields every source and every repair packet exactly once,    *)
(* for blocks of any size and any number of repair packets.                *)
THEOREM InterleaveYieldsEveryItemOnce == Spec => []EveryItemOnce
  BY IInvInvariant, IInvImpliesEveryItemOnce, PTL

(* Every prefix of what interleave yields holds its share of the shorter   *)
(* vector, rounded up.                                                     *)
THEOREM InterleaveSpreadsEvenly == Spec => []EvenlySpread
<1>1. IInv => EvenlySpread
  BY DEF IInv
<1> QED
  BY <1>1, IInvInvariant, PTL
=============================================================================
