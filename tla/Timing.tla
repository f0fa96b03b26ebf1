------------------------------- MODULE Timing -------------------------------
(***************************************************************************)
(* client/timing/timing.go: voting rounds and their phases in time.        *)
(* Round n collects requests in [RoundStartTS(n), RoundStartTS(n + 1)) and *)
(* chooses among them in [ChooseStartTS(n), ChooseEndTS(n)).  Timestamps   *)
(* are uint64 seconds and round ids uint32; neither comes near its limit   *)
(* (2^32 rounds of 90 s are 12000 years), so both are natural numbers.     *)
(***************************************************************************)
EXTENDS Naturals

CONSTANTS
    T0,                  \* start of round 0
    CollectDurationSec,  \* length of a collect phase
    ChooseDurationSec    \* length of a choose phase

ASSUME TimingAssumption ==
    /\ T0 \in Nat
    /\ CollectDurationSec \in Nat \ {0}
    /\ ChooseDurationSec \in Nat \ {0}
    /\ ChooseDurationSec <= CollectDurationSec

\* Defined for t >= T0; the code returns an error before.
RoundIDForTS(t) == (t - T0) \div CollectDurationSec

RoundStartTS(n) == T0 + n * CollectDurationSec

ChooseStartTS(n) == RoundStartTS(n + 1)

ChooseEndTS(n) == ChooseStartTS(n) + ChooseDurationSec

\* The round whose choose phase ends next, at t or later.
NextChooseEnd(t) ==
    IF t < T0 + ChooseDurationSec + 1
    THEN 0
    ELSE (t - T0 - ChooseDurationSec - 1) \div CollectDurationSec

\* Start of the latest round, for t >= T0.
LastCollectPhaseStart(t) == RoundStartTS(RoundIDForTS(t))

\* rewardEpochLength rounds make a reward epoch; delay is T0RewardDelay.
ExpectedRewardEpochStartTS(e, delay, rewardEpochLength) ==
    T0 + delay + rewardEpochLength * CollectDurationSec * e

=============================================================================
