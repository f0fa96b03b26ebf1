---------------------------- MODULE TimingProofs ----------------------------
(* Theorems about the round arithmetic of module Timing.                    *)
EXTENDS Timing, TLAPS

\* Division with remainder.
LEMMA DivBounds ==
    ASSUME NEW x \in Nat, NEW c \in Nat \ {0}
    PROVE  /\ x \div c \in Nat
           /\ (x \div c) * c <= x
           /\ x < (x \div c) * c + c
  OBVIOUS

\* A round starts at a time, and not before T0.
LEMMA RoundStartType ==
    ASSUME NEW n \in Nat
    PROVE  RoundStartTS(n) \in Nat /\ T0 <= RoundStartTS(n)
  BY TimingAssumption DEF RoundStartTS

\* Multiplying by the length of a round keeps the order.
LEMMA RoundStartMonotone ==
    ASSUME NEW m \in Nat, NEW n \in Nat, m < n
    PROVE  RoundStartTS(m) + CollectDurationSec <= RoundStartTS(n)
  <1>1. (m + 1) * CollectDurationSec <= n * CollectDurationSec
    BY TimingAssumption
  <1>2. (m + 1) * CollectDurationSec = m * CollectDurationSec + CollectDurationSec
    BY TimingAssumption
  <1> QED
    BY <1>1, <1>2, TimingAssumption DEF RoundStartTS

\* RoundIDForTS: every timestamp from T0 on belongs to exactly one round, the
\* one whose collect phase [RoundStartTS(n), RoundStartTS(n + 1)) it is in.
THEOREM RoundOfTimestamp ==
    ASSUME NEW t \in Nat, T0 <= t
    PROVE  /\ RoundIDForTS(t) \in Nat
           /\ \A n \in Nat : RoundIDForTS(t) = n <=>
                  RoundStartTS(n) <= t /\ t < RoundStartTS(n + 1)
  <1> DEFINE r == RoundIDForTS(t)
  <1>1. /\ r \in Nat
        /\ RoundStartTS(r) <= t
        /\ t < RoundStartTS(r) + CollectDurationSec
    <2>1. t - T0 \in Nat
      BY TimingAssumption
    <2> QED
      BY <2>1, DivBounds, TimingAssumption DEF RoundIDForTS, RoundStartTS
  <1>2. ASSUME NEW n \in Nat
        PROVE  RoundStartTS(n + 1) = RoundStartTS(n) + CollectDurationSec
    BY TimingAssumption DEF RoundStartTS
  <1>3. ASSUME NEW n \in Nat, RoundStartTS(n) <= t, t < RoundStartTS(n + 1)
        PROVE  r = n
    <2>1. ASSUME r < n PROVE FALSE
      BY <2>1, <1>1, <1>3, RoundStartMonotone, RoundStartType, TimingAssumption
    <2>2. ASSUME n < r PROVE FALSE
      BY <2>2, <1>1, <1>2, <1>3, RoundStartMonotone, RoundStartType,
         TimingAssumption
    <2> QED
      BY <2>1, <2>2, <1>1
  <1> QED
    BY <1>1, <1>2, <1>3

\* ChooseStartTS and ChooseEndTS: the choose phases of different rounds do not
\* overlap, so a timestamp is acceptable to OnBitVote for one round at most.
THEOREM ChoosePhasesDisjoint ==
    ASSUME NEW m \in Nat, NEW n \in Nat, m < n
    PROVE  ChooseEndTS(m) <= ChooseStartTS(n)
  <1>1. RoundStartTS(m + 1) + CollectDurationSec <= RoundStartTS(n + 1)
    BY RoundStartMonotone
  <1>2. RoundStartTS(m + 1) \in Nat /\ RoundStartTS(n + 1) \in Nat
    BY RoundStartType
  <1> QED
    BY <1>1, <1>2, TimingAssumption DEF ChooseEndTS, ChooseStartTS

\* NextChooseEnd: the first round whose choose phase ends at t or later.  A
\* client that starts at database time t neither skips a choose phase that is
\* still open nor reports one that ended before t.
THEOREM NextChooseEndIsNext ==
    ASSUME NEW t \in Nat
    PROVE  /\ NextChooseEnd(t) \in Nat
           /\ t <= ChooseEndTS(NextChooseEnd(t))
           /\ \A n \in Nat : t <= ChooseEndTS(n) => NextChooseEnd(t) <= n
  <1> DEFINE k == NextChooseEnd(t)
  <1>1. ASSUME NEW n \in Nat
        PROVE  ChooseEndTS(n) =
                   T0 + n * CollectDurationSec + CollectDurationSec
                      + ChooseDurationSec
    BY TimingAssumption DEF ChooseEndTS, ChooseStartTS, RoundStartTS
  <1>2. CASE t < T0 + ChooseDurationSec + 1
    <2>1. k = 0
      BY <1>2 DEF NextChooseEnd
    <2> QED
      BY <2>1, <1>1, <1>2, TimingAssumption
  <1>3. CASE ~(t < T0 + ChooseDurationSec + 1)
    <2> DEFINE x == t - T0 - ChooseDurationSec - 1
    <2>1. x \in Nat /\ t = x + T0 + ChooseDurationSec + 1
      BY <1>3, TimingAssumption
    <2>2. k = x \div CollectDurationSec
      BY <1>3 DEF NextChooseEnd
    <2>3. /\ k \in Nat
          /\ k * CollectDurationSec <= x
          /\ x < k * CollectDurationSec + CollectDurationSec
      BY <2>1, <2>2, DivBounds, TimingAssumption
    <2>4. t <= ChooseEndTS(k)
      BY <2>1, <2>3, <1>1, TimingAssumption
    <2>5. ASSUME NEW n \in Nat, t <= ChooseEndTS(n), n < k
          PROVE  FALSE
      <3>1. n * CollectDurationSec + CollectDurationSec <= k * CollectDurationSec
        BY <2>3, <2>5, RoundStartMonotone, TimingAssumption DEF RoundStartTS
      <3> QED
        BY <3>1, <2>1, <2>3, <2>5, <1>1, TimingAssumption
    <2> QED
      BY <2>3, <2>4, <2>5
  <1> QED
    BY <1>2, <1>3

=============================================================================
