---------------------------- MODULE GFSRetention ----------------------------
(***************************************************************************)
(* Grandfather-father-son retention of one storage location, over time.    *)
(*                                                                         *)
(* ClassifyBackupsGFS (internal/storage/retention.go) is called at the end *)
(* of every run with the backups the location lists and the current time.  *)
(* A single call is easy to test; what is not is what a long sequence of   *)
(* calls adds up to, when runs are missed, a copy to the location fails    *)
(* (retention is applied all the same), or some deletions fail.            *)
(*                                                                         *)
(* A backup is represented by the time it was started.  Times are          *)
(* 0..Horizon; two backups of a location never have the same time.  The    *)
(* calendar is given by functions from times to consecutive week, month    *)
(* and year numbers.                                                       *)
(***************************************************************************)
EXTENDS Integers, FiniteSets

CONSTANTS
  Daily, Weekly, Monthly, Yearly,   \* RETENTION_DAILY .. RETENTION_YEARLY
  Horizon,                          \* the last time considered
  WeekOf, MonthOf, YearOf           \* the calendar

Times == 0 .. Horizon

\* A calendar numbers its periods in the order of time.
Calendar(period) ==
  /\ period \in [Times -> Nat]
  /\ \A a, b \in Times : a <= b => period[a] <= period[b]

ASSUME TiersAreInts == {Daily, Weekly, Monthly, Yearly} \subseteq Int
ASSUME HorizonIsNat == Horizon \in Nat
ASSUME Calendars == Calendar(WeekOf) /\ Calendar(MonthOf) /\ Calendar(YearOf)

VARIABLES
  now,     \* the current time
  store,   \* the verified backups the location holds
  made     \* history: every backup ever stored there

gfsVars == <<now, store, made>>

-----------------------------------------------------------------------------
(* The classification: which backups of S are kept by a call at time t.    *)

EffectiveDaily == IF Daily <= 0 THEN 1 ELSE Daily

Newer(S, b) == {c \in S : c > b}

DailyTier(S) == {b \in S : Cardinality(Newer(S, b)) < EffectiveDaily}

\* Variant: the current period is eligible too
Past_Current(S, period, t) == {b \in S : period[b] <= period[t]}

\* Only periods strictly before the current one are eligible.
Past(S, period, t) == {b \in S : period[b] < period[t]}

\* The newest backup of each of the `limit' newest periods that have one.
Tier(S, period, limit) ==
  {b \in S : /\ \A c \in S : period[c] = period[b] => c <= b
             /\ Cardinality({period[c] : c \in Newer(S, b)}) < limit}

WeeklyTier(S, t) == Tier(Past(S \ DailyTier(S), WeekOf, t), WeekOf, Weekly)

MonthlyTier(S, t) ==
  Tier(Past(S \ (DailyTier(S) \cup WeeklyTier(S, t)), MonthOf, t),
       MonthOf, Monthly)

\* Yearly = 0 keeps every year; a negative value switches the tier off.
YearlyLimit(S) == IF Yearly = 0 THEN Cardinality(S) + 1 ELSE Yearly

YearlyTier(S, t) ==
  Tier(Past(S \ (DailyTier(S) \cup WeeklyTier(S, t) \cup MonthlyTier(S, t)),
            YearOf, t),
       YearOf, YearlyLimit(S))

Kept(S, t) ==
  DailyTier(S) \cup WeeklyTier(S, t) \cup MonthlyTier(S, t) \cup YearlyTier(S, t)

Doomed(S, t) == S \ Kept(S, t)

-----------------------------------------------------------------------------
GFSInit ==
  /\ now = 0
  /\ store = {}
  /\ made = {}

\* Time passes; whether a run happens at any given time is left open.
Tick ==
  /\ now < Horizon
  /\ now' = now + 1
  /\ UNCHANGED <<store, made>>

(* Retention over the backups S.  A deletion that fails is skipped, and a  *)
(* crash or a cancelled context ends the loop early: any part of the       *)
(* doomed backups is removed.                                              *)
ApplyRetention(S) ==
  \E gone \in SUBSET Doomed(S, now) : store' = S \ gone

\* Variant: the backup is recorded as stored before it is
SyncStored_Early ==
  /\ now \notin made
  /\ made' = made \cup {now + 1}
  /\ ApplyRetention(store \cup {now})
  /\ UNCHANGED now

\* A run stores its backup, then applies retention.
SyncStored ==
  /\ now \notin made
  /\ made' = made \cup {now}
  /\ ApplyRetention(store \cup {now})
  /\ UNCHANGED now

(* The backup could not be stored on a non-critical location: retention is *)
(* applied to the backups already there.                                   *)
SyncFailed ==
  /\ ApplyRetention(store)
  /\ UNCHANGED <<now, made>>

GFSNext == Tick \/ SyncStored \/ SyncFailed

GFSSpec == GFSInit /\ [][GFSNext]_gfsVars

-----------------------------------------------------------------------------
(* The variables keep to their types, and the location holds nothing that  *)
(* was not stored there by a run in the past.                              *)
GFSTypeOK ==
  /\ now \in Times
  /\ made \subseteq 0 .. now
  /\ store \subseteq made

(* The newest EffectiveDaily backups ever stored are all still there:      *)
(* retention after failed copies and partly failed deletions never eats    *)
(* into the daily tier (ClassifyBackupsGFS, step 1).                       *)
RecentKept ==
  \A m \in made : Cardinality(Newer(made, m)) < EffectiveDaily => m \in store

\* m is the last backup of its period
LastOf(m, period) == \A c \in made : period[c] = period[m] => c <= m

Covered(period, tier) ==
  \A m \in made :
    LastOf(m, period) /\ period[now] - period[m] <= tier => m \in store

WeeksCovered == Covered(WeekOf, Weekly)
MonthsCovered == Covered(MonthOf, Monthly)
YearsCovered ==
  \A m \in made :
    /\ LastOf(m, YearOf)
    /\ Yearly = 0 \/ YearOf[now] - YearOf[m] <= Yearly
    => m \in store

(* Every one of the last Weekly weeks (Monthly months, Yearly years, or    *)
(* all of them when Yearly is 0) in which a backup was stored is still     *)
(* represented, by its last backup, although a backup has to pass from one *)
(* tier to the next over many runs and a week may straddle two months: the *)
(* promise of the tiers in docs/CONFIGURATION.md ("Keep 4 weekly backups   *)
(* (1 per ISO week)").                                                     *)
PeriodsCovered == WeeksCovered /\ MonthsCovered /\ YearsCovered

(* Every tier keeps what it is for, whatever retention ran before.         *)
TiersKeep == RecentKept /\ PeriodsCovered
=============================================================================
