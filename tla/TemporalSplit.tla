----------------------------- MODULE TemporalSplit -----------------------------
(***************************************************************************)
(* What may be known when: the temporal split of a campaign                *)
(* (app/campaigns/splits.py), its walk-forward windows (walk_forward.py),  *)
(* the periods of an ML experiment (app/ml_research/pipeline.py) and the   *)
(* as-of alignment of released data (app/alternative_data/alignment.py).   *)
(* Dates are integers and a period [start, end) excludes its end.          *)
(***************************************************************************)
EXTENDS Integers, FiniteSets

CONSTANT None   \* no split given, none accepted, no release

Period(a, b) == [start |-> a, end |-> b]

Larger(a, b) == IF a >= b THEN a ELSE b

-----------------------------------------------------------------------------
(* The split of a campaign *)

\* int(days * 0.6) and int(days * 0.8) are exact at the lengths a campaign can have
DefaultSplit(start, end) ==
  LET days          == end - start
      trainEnd      == start + Larger(2, (6 * days) \div 10)
      validationEnd == start + Larger(4, (8 * days) \div 10)
  IN  [train      |-> Period(start, trainEnd),
       validation |-> Period(trainEnd, validationEnd),
       test       |-> Period(validationEnd, end)]

ValidSplit(split, start, end) ==
  /\ \A part \in {split.train, split.validation, split.test} : part.start < part.end
  /\ split.train.start >= start /\ split.test.end <= end
  /\ split.train.end <= split.validation.start
  /\ split.validation.end <= split.test.start

\* A campaign is refused (None) when its own split is invalid, or when it has none and
\* spans less than six days.
BuildSplit(start, end, given) ==
  LET split == IF given # None THEN given ELSE DefaultSplit(start, end)
  IN  IF (given = None /\ end - start < 6) \/ ~ValidSplit(split, start, end)
        THEN None ELSE split

-----------------------------------------------------------------------------
(* Walk-forward windows *)

\* every window of the minimum size that fits, or none
BuildWindows(start, end, windows, minTrain, minTest) ==
  LET total == end - start
      step  == Larger(minTest, total \div (windows + 1))
      span  == Larger(minTrain, step)
      Window(i) ==
        LET from == start + i * step
        IN  [train |-> Period(from, from + span), test |-> Period(from + span, from + span + step)]
  IN  {w \in {Window(i) : i \in 0..(windows - 1)} :
         total >= minTrain + minTest /\ w.test.end <= end}

\* The faulty CampaignWindows of a mutant: the windows run to the end of the campaign.
WindowsToTheEnd(start, split, longWindow) ==
  BuildWindows(start, split.test.end, 3, longWindow + 1, longWindow + 1)

\* A campaign walks forward from its start to the end of its validation period, in windows
\* longer than the long moving average.
CampaignWindows(start, split, longWindow) ==
  BuildWindows(start, split.validation.end, 3, longWindow + 1, longWindow + 1)

-----------------------------------------------------------------------------
(* The observations of an ML experiment *)

\* a feature is known when it is used, and the target comes after
PointInTime(row) == row.available <= row.at /\ row.at < row.target

InPeriod(rows, period) == {row \in rows : period.start <= row.at /\ row.at < period.end}

\* the scaling and the model are fitted to these rows alone
TrainingRows(rows, split) == InPeriod(rows, split.train)

-----------------------------------------------------------------------------
(* As-of alignment.  A release says which time it describes (of) and when it became known. *)

KnownReleases(releases, target, policy) ==
  {r \in releases : r.available <= target /\ (policy.past => r.of <= target)}

\* the latest time described, by its latest release
Latest(known) ==
  CHOOSE r \in known : \A o \in known :
    o.of < r.of \/ (o.of = r.of /\ o.available <= r.available)

\* what is known at the target time, and how well (a staleness bound of 0 is none)
AlignAsOf(releases, target, policy) ==
  LET known  == KnownReleases(releases, target, policy)
      latest == Latest(known)
  IN  IF known = {} THEN [status |-> "unavailable", release |-> None]
      ELSE IF ~policy.fill /\ latest.of # target THEN [status |-> "missing", release |-> None]
      ELSE [status  |-> IF policy.stale > 0 /\ target - latest.of > policy.stale
                          THEN "stale" ELSE "available",
            release |-> latest]
=============================================================================
