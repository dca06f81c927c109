-------------------------- MODULE ConfirmedApplyProofs ------------------------
(***************************************************************************)
(* Theorems about the applies that are rolled back unless confirmed        *)
(* (ConfirmedApply), for any sequence of categories.                       *)
(*                                                                         *)
(* The inductive invariant is about one category at a time.  Before it is  *)
(* applied nothing of it is in effect and no script is about               *)
(* (NotYetApplied); at the apply the script is armed, unless the operator  *)
(* goes on without a backup of it (ArmedFirst); the script takes its steps *)
(* in order (ScriptSteps); the new configuration is in effect until the    *)
(* script takes it back (NewUntilReverted); what was committed was seen by *)
(* the operator with no script about (CommittedFor); and a configuration   *)
(* that is in effect unconfirmed has a script that will take it back, a    *)
(* timer that will run it, or an operator who was told (Guarded).          *)
(***************************************************************************)
EXTENDS ConfirmedApply, TLAPS

\* The flow is at one of the steps S of category c, or has not come to c yet.
Within(c, S) == turn <= Len(Order) /\ Order[turn] = c /\ step \in S
Ahead(c)     == \A i \in 1 .. Len(Order) : Order[i] = c => turn < i

\* Before a category is applied nothing of it is in effect and no script is about.
NotYetApplied(c) ==
  Ahead(c) \/ Within(c, {"install", "offer", "validate", "arm", "timer"}) =>
    /\ timer[c] = "unset" /\ script[c] = "off" /\ testedIn[c] = "never"
    /\ live[c] = "old" /\ outcome[c] = "none" /\ c \notin stuck

\* The guard is up before the apply, unless the operator goes without a backup.
ArmedFirst(c) ==
  /\ Within(c, {"validate", "arm", "timer"}) => backup[c] # "none"
  /\ Within(c, {"validate"}) => c \in Network
  /\ Within(c, {"timer"}) => marker[c]
  /\ Within(c, {"apply"}) =>
       /\ live[c] = "old" /\ outcome[c] = "none" /\ c \notin stuck
       /\ testedIn[c] \in {"never", "applying"}
       /\ backup[c] = "none" => c \notin Network
       /\ backup[c] # "none" /\ testedIn[c] = "never" =>
            marker[c] /\ (timer[c] = "set" \/ script[c] = "test")

\* What the script does, it does when the time is over, and the history knows.
ScriptSteps(c) ==
  /\ script[c] # "off" => expired[c] /\ timer[c] = "fired"
  /\ script[c] \in {"off", "test"} => testedIn[c] = "never"
  /\ script[c] \in {"signal", "revert", "finish"} => testedIn[c] # "never"

\* The script of c, or that of another category, found its marker.
Touched(c) == RevertedWithAnother(c) \/ testedIn[c] # "never"

\* The files of the network are new when they are applied, and what was applied is
\* in effect until it is confirmed, but for the scripts.
NewUntilReverted(c) ==
  /\ Within(c, {"arm", "timer", "apply"}) /\ c \in Network => disk[c] = "new" \/ Touched(c)
  /\ Within(c, {"prompt", "check", "recheck"}) => outcome[c] = "none"
  /\ Within(c, {"disarm"}) => outcome[c] \in {"none", "unchanged"}
  /\ Within(c, {"prompt", "check", "recheck", "disarm"}) /\ outcome[c] = "none" =>
       live[c] = "new" \/ Touched(c)
  /\ Within(c, {"check", "recheck", "disarm"}) /\ outcome[c] = "none" =>
       testedIn[c] \in {"never", "answered"}
  /\ Within(c, {"stop"}) => outcome[c] \in {"committed", "unchanged"}
  /\ outcome[c] = "unchanged" => live[c] = "old"

\* What was confirmed has no marker any more that a script could find.
CommittedFor(c) ==
  outcome[c] = "committed" =>
    \/ c \in stuck
    \/ /\ ~marker[c] /\ testedIn[c] \in {"never", "answered"}
       /\ live[c] = "new" \/ Touched(c)

\* UnconfirmedIsGuarded, for one category.
Guarded(c) ==
  Unconfirmed(c) =>
    \/ c \in spoilt
    \/ marker[c] /\ (timer[c] = "set" \/ script[c] \in {"test", "signal", "revert"})

InvOf(c) ==
  /\ NotYetApplied(c) /\ ArmedFirst(c) /\ ScriptSteps(c) /\ NewUntilReverted(c)
  /\ CommittedFor(c) /\ Guarded(c)

ApplyInv == ApplyTypeOK /\ \A c \in Categories : InvOf(c)

-----------------------------------------------------------------------------
FlowOf(c) ==
  \/ Install(c) \/ Offer(c) \/ Validate(c) \/ Arm(c) \/ StartTimer(c)
  \/ Apply(c) \/ Prompt(c) \/ CheckRunning(c) \/ CheckExecuted(c)
  \/ RemoveMarker(c) \/ StopTimer(c)

\* The flow goes on with c, leaves it for the next, or is over.
TurnsOn ==
  \/ turn' = turn /\ step' \in ApplySteps
  \/ turn' = turn + 1 /\ step' = "install"
  \/ turn' = Len(Order) + 1 /\ step' = step

\* Nothing changes for category q.
Kept(q) ==
  /\ backup'[q] = backup[q] /\ disk'[q] = disk[q] /\ live'[q] = live[q]
  /\ marker'[q] = marker[q] /\ running'[q] = running[q] /\ timer'[q] = timer[q]
  /\ expired'[q] = expired[q] /\ script'[q] = script[q] /\ outcome'[q] = outcome[q]
  /\ testedIn'[q] = testedIn[q]
  /\ q \in spoilt' <=> q \in spoilt
  /\ q \in stuck' <=> q \in stuck

LEMMA OrderFacts ==
  /\ Len(Order) \in Nat
  /\ \A i, j \in 1 .. Len(Order) : Order[i] = Order[j] => i = j
  /\ Network \subseteq Categories
  /\ \A i \in 1 .. Len(Order) : Order[i] \in Categories
  /\ \A c \in Categories : \E i \in 1 .. Len(Order) : Order[i] = c
  BY ConfirmedApplyAssumption DEF Categories

\* The types of what belongs to the flow, the timers and the scripts.
FlowTypes ==
  /\ turn \in 1 .. Len(Order) + 1 /\ step \in ApplySteps
  /\ backup \in [Categories -> {"unknown", "own", "full", "none"}]
  /\ outcome \in [Categories -> Outcomes]
DiskTypes ==
  /\ disk \in [Categories -> {"old", "new"}]
  /\ live \in [Categories -> {"old", "new"}]
TimerTypes ==
  /\ marker \in [Categories -> BOOLEAN]
  /\ unit \in [Categories -> BOOLEAN]
  /\ timer \in [Categories -> {"unset", "set", "stopped", "fired"}]
  /\ expired \in [Categories -> BOOLEAN]
ScriptTypes ==
  /\ running \in [Categories -> BOOLEAN]
  /\ script \in [Categories -> {"off", "test", "signal", "revert", "finish", "done"}]
  /\ testedIn \in [Categories -> {"never", "applying", "answered", "other"}]
  /\ spoilt \subseteq Categories /\ stuck \subseteq Categories

LEMMA TypesTogether ==
  ApplyTypeOK <=> FlowTypes /\ DiskTypes /\ TimerTypes /\ ScriptTypes
  BY DEF ApplyTypeOK, FlowTypes, DiskTypes, TimerTypes, ScriptTypes

LEMMA TypesPrimed ==
  FlowTypes' /\ DiskTypes' /\ TimerTypes' /\ ScriptTypes' => ApplyTypeOK'
  BY DEF ApplyTypeOK, FlowTypes, DiskTypes, TimerTypes, ScriptTypes

\* A step of the flow of c: well formed, and no other category is concerned.
LEMMA FlowTurns ==
  ASSUME FlowTypes, NEW c \in Categories, FlowOf(c)
  PROVE  /\ FlowTypes' /\ TurnsOn
         /\ turn <= Len(Order) /\ Order[turn] = c
         /\ \A q \in Categories \ {c} : backup'[q] = backup[q] /\ outcome'[q] = outcome[q]
  <1> USE OrderFacts DEF At, Goto, Ends, Abort, FlowTypes
  <1>1. turn <= Len(Order) /\ Order[turn] = c
    BY DEF FlowOf, Install, Offer, Validate, Arm, StartTimer, Apply, Prompt,
           CheckRunning, CheckExecuted, RemoveMarker, StopTimer
  <1>2. TurnsOn
    <2> USE DEF TurnsOn, ApplySteps
    <2>1. CASE Install(c) \/ Offer(c) \/ Validate(c)
      BY <2>1 DEF Install, Offer, Validate
    <2>2. CASE Arm(c) \/ StartTimer(c) \/ Apply(c)
      BY <2>2 DEF Arm, StartTimer, Apply
    <2>3. CASE Prompt(c) \/ CheckRunning(c) \/ CheckExecuted(c)
      BY <2>3 DEF Prompt, CheckRunning, CheckExecuted
    <2>4. CASE RemoveMarker(c) \/ StopTimer(c)
      BY <2>4 DEF RemoveMarker, StopTimer
    <2> QED
      BY <2>1, <2>2, <2>3, <2>4 DEF FlowOf
  <1>3. turn' \in 1 .. Len(Order) + 1 /\ step' \in ApplySteps
    BY <1>1, <1>2 DEF TurnsOn, ApplySteps
  <1>4. /\ outcome' = outcome \/ \E o \in Outcomes : outcome' = [outcome EXCEPT ![c] = o]
        /\ backup' = backup \/ \E b \in {"own", "full", "none"} :
                                 backup' = [backup EXCEPT ![c] = b]
    <2> USE DEF Outcomes
    <2>1. CASE Install(c)
      BY <2>1 DEF Install
    <2>2. CASE Offer(c) \/ Validate(c) \/ Arm(c) \/ StartTimer(c)
      BY <2>2 DEF Offer, Validate, Arm, StartTimer
    <2>3. CASE Apply(c)
      BY <2>3 DEF Apply
    <2>4. CASE Prompt(c) \/ CheckRunning(c) \/ CheckExecuted(c)
      BY <2>4 DEF Prompt, CheckRunning, CheckExecuted
    <2>5. CASE RemoveMarker(c) \/ StopTimer(c)
      BY <2>5 DEF RemoveMarker, StopTimer
    <2> QED
      BY <2>1, <2>2, <2>3, <2>4, <2>5 DEF FlowOf
  <1>5. /\ outcome' \in [Categories -> Outcomes]
        /\ \A q \in Categories \ {c} : outcome'[q] = outcome[q]
    BY <1>4
  <1>6. /\ backup' \in [Categories -> {"unknown", "own", "full", "none"}]
        /\ \A q \in Categories \ {c} : backup'[q] = backup[q]
    BY <1>4
  <1> QED
    BY <1>1, <1>2, <1>3, <1>5, <1>6

LEMMA FlowDisk ==
  ASSUME DiskTypes, NEW c \in Categories, FlowOf(c)
  PROVE  /\ DiskTypes'
         /\ \A q \in Categories \ {c} : disk'[q] = disk[q] /\ live'[q] = live[q]
  <1> USE DEF DiskTypes
  <1>1. /\ disk' = disk \/ \E d \in {"old", "new"} : disk' = [disk EXCEPT ![c] = d]
        /\ live' = live \/ \E d \in {"old", "new"} : live' = [live EXCEPT ![c] = d]
    <2>1. CASE Install(c) \/ Validate(c)
      BY <2>1 DEF Install, Validate, WriteFiles
    <2>2. CASE Apply(c)
      <3>1. Applied(c) \in {"old", "new"} /\ live[c] \in {"old", "new"}
        BY DEF Applied
      <3>2. live' = live \/ \E d \in {"old", "new"} : live' = [live EXCEPT ![c] = d]
        BY <2>2, <3>1 DEF Apply
      <3>3. live'[c] \in {"old", "new"}
        BY <3>2
      <3>4. disk' = disk \/ \E d \in {"old", "new"} : disk' = [disk EXCEPT ![c] = d]
        BY <2>2, <3>1, <3>3 DEF Apply
      <3> QED
        BY <3>2, <3>4
    <2>3. CASE Offer(c) \/ Arm(c) \/ StartTimer(c) \/ Prompt(c) \/ CheckRunning(c)
                 \/ CheckExecuted(c) \/ RemoveMarker(c) \/ StopTimer(c)
      BY <2>3 DEF Offer, Arm, StartTimer, Prompt, CheckRunning, CheckExecuted,
             RemoveMarker, StopTimer
    <2> QED
      BY <2>1, <2>2, <2>3 DEF FlowOf
  <1> QED
    BY <1>1

LEMMA FlowTimers ==
  ASSUME TimerTypes, ScriptTypes, NEW c \in Categories, FlowOf(c)
  PROVE  /\ TimerTypes' /\ ScriptTypes'
         /\ \A q \in Categories \ {c} :
              /\ marker'[q] = marker[q] /\ timer'[q] = timer[q] /\ expired'[q] = expired[q]
              /\ q \in stuck' <=> q \in stuck
         /\ UNCHANGED <<running, script, testedIn, spoilt>>
  <1> USE DEF TimerTypes, ScriptTypes, timerVars, scriptVars
  <1>1. CASE Arm(c)
    BY <1>1 DEF Arm
  <1>2. CASE StartTimer(c)
    BY <1>2 DEF StartTimer
  <1>3. CASE RemoveMarker(c)
    BY <1>3 DEF RemoveMarker
  <1>4. CASE StopTimer(c)
    BY <1>4 DEF StopTimer
  <1>5. CASE Install(c) \/ Offer(c) \/ Validate(c) \/ Apply(c) \/ Prompt(c)
    <2>1. UNCHANGED <<timerVars, scriptVars>>
      BY <1>5 DEF Install, Offer, Validate, Apply, Prompt
    <2> QED
      BY <2>1
  <1>6. CASE CheckRunning(c) \/ CheckExecuted(c)
    <2>1. /\ UNCHANGED <<timerVars, running, script, testedIn, spoilt>>
          /\ stuck' = stuck \/ stuck' = stuck \cup {c}
      BY <1>6 DEF CheckRunning, CheckExecuted
    <2> QED
      BY <2>1
  <1> QED
    BY <1>1, <1>2, <1>3, <1>4, <1>5, <1>6 DEF FlowOf

\* Where a category stands when the flow goes on.
LEMMA TurnFacts ==
  ASSUME FlowTypes, FlowTypes', TurnsOn, turn <= Len(Order), NEW q \in Categories
  PROVE  /\ Ahead(q)' => Ahead(q)
         /\ Order[turn] = q => ~Ahead(q)
         /\ turn' # turn \/ Order[turn] # q =>
              \A S \in SUBSET ApplySteps :
                Within(q, S)' => Ahead(q) /\ step' = "install" /\ "install" \in S
  <1> USE OrderFacts DEF FlowTypes, Ahead, Within
  <1>1. turn <= turn'
    BY DEF TurnsOn
  <1>2. Ahead(q)' => Ahead(q)
    BY <1>1
  <1>3. Order[turn] = q => ~Ahead(q)
    OBVIOUS
  <1>4. ASSUME turn' # turn \/ Order[turn] # q, NEW S \in SUBSET ApplySteps, Within(q, S)'
        PROVE  Ahead(q) /\ step' = "install" /\ "install" \in S
    <2>1. turn' <= Len(Order) /\ Order[turn'] = q /\ step' \in S
      BY <1>4
    <2>2. turn' = turn + 1 /\ step' = "install"
      BY <1>4, <2>1 DEF TurnsOn
    <2>3. Ahead(q)
      BY <2>1, <2>2
    <2> QED
      BY <2>1, <2>2, <2>3
  <1> QED
    BY <1>2, <1>3, <1>4

\* What is kept for a category the step is not about keeps its invariant.
LEMMA KeptSteps ==
  ASSUME NEW q \in Categories, InvOf(q), Kept(q),
         RevertedWithAnother(q) => RevertedWithAnother(q)',
         Ahead(q)' => Ahead(q),
         \A S \in SUBSET ApplySteps :
           Within(q, S)' => Within(q, S) \/ (Ahead(q) /\ "install" \in S)
  PROVE  InvOf(q)'
  <1> USE DEF InvOf, Kept, ApplySteps
  <1>1. NotYetApplied(q)'
    BY DEF NotYetApplied
  <1>2. ArmedFirst(q)'
    BY DEF ArmedFirst
  <1>3. ScriptSteps(q)'
    BY DEF ScriptSteps
  <1>4. NewUntilReverted(q)'
    BY DEF NewUntilReverted, Touched
  <1>5. CommittedFor(q)'
    BY DEF CommittedFor, Touched
  <1>6. Guarded(q)'
    BY DEF Guarded, Unconfirmed
  <1> QED
    BY <1>1, <1>2, <1>3, <1>4, <1>5, <1>6

\* The flow never makes another category's rollback undone.
LEMMA FlowKeepsReverts ==
  ASSUME ApplyInv, NEW c \in Categories, FlowOf(c), NEW q \in Categories,
         RevertedWithAnother(q)
  PROVE  RevertedWithAnother(q)'
  <1>1. FlowTypes /\ TimerTypes /\ ScriptTypes
    BY TypesTogether DEF ApplyInv
  <1>2. PICK d \in Categories \ {q} : backup[d] = "full" /\ testedIn[d] # "never"
    BY DEF RevertedWithAnother
  <1>3. testedIn' = testedIn
    BY <1>1, FlowTimers
  <1>4. backup'[d] = backup[d]
    <2>1. CASE d # c
      BY <1>1, <2>1, FlowTurns
    <2>2. CASE d = c
      <3>1. ~Install(c)
        BY <1>2, <2>2 DEF ApplyInv, InvOf, NotYetApplied, Install, At, Within
      <3> QED
        BY <2>2, <3>1 DEF FlowOf, Offer, Validate, Arm, StartTimer, Apply, Prompt,
               CheckRunning, CheckExecuted, RemoveMarker, StopTimer, flowVars,
               Goto, Ends, Abort
    <2> QED
      BY <2>1, <2>2
  <1> QED
    BY <1>2, <1>3, <1>4 DEF RevertedWithAnother

LEMMA FlowOthers ==
  ASSUME ApplyInv, NEW c \in Categories, FlowOf(c), NEW q \in Categories \ {c}
  PROVE  InvOf(q)'
  <1>1. FlowTypes /\ DiskTypes /\ TimerTypes /\ ScriptTypes
    BY TypesTogether DEF ApplyInv
  <1>2. /\ FlowTypes' /\ TurnsOn /\ turn <= Len(Order) /\ Order[turn] = c
        /\ backup'[q] = backup[q] /\ outcome'[q] = outcome[q]
    BY <1>1, FlowTurns
  <1>3. Kept(q)
    BY <1>1, <1>2, FlowDisk, FlowTimers DEF Kept
  <1>4. /\ Ahead(q)' => Ahead(q)
        /\ \A S \in SUBSET ApplySteps :
             Within(q, S)' => Within(q, S) \/ (Ahead(q) /\ "install" \in S)
    BY <1>1, <1>2, TurnFacts
  <1>5. RevertedWithAnother(q) => RevertedWithAnother(q)'
    BY FlowKeepsReverts
  <1>6. InvOf(q)
    BY DEF ApplyInv
  <1> QED
    BY <1>3, <1>4, <1>5, <1>6, KeptSteps

\* Where category c is when a step of its own flow has been taken.
LEMMA FlowPlace ==
  ASSUME ApplyInv, NEW c \in Categories, FlowOf(c)
  PROVE  /\ ~Ahead(c)'
         /\ \A S \in SUBSET ApplySteps : Within(c, S) <=> step \in S
         /\ \A S \in SUBSET ApplySteps : Within(c, S)' => turn' = turn /\ step' \in S
         /\ Touched(c) => Touched(c)'
         /\ script'[c] = script[c] /\ testedIn'[c] = testedIn[c]
         /\ c \in spoilt' <=> c \in spoilt
  <1>1. FlowTypes /\ DiskTypes /\ TimerTypes /\ ScriptTypes
    BY TypesTogether DEF ApplyInv
  <1>2. FlowTypes' /\ TurnsOn /\ turn <= Len(Order) /\ Order[turn] = c
    BY <1>1, FlowTurns
  <1>3. ~Ahead(c) /\ ~Ahead(c)'
    BY <1>1, <1>2, TurnFacts
  <1>4. \A S \in SUBSET ApplySteps : Within(c, S) <=> step \in S
    BY <1>2 DEF Within
  <1>5. \A S \in SUBSET ApplySteps : Within(c, S)' => turn' = turn /\ step' \in S
    BY <1>1, <1>2, <1>3, TurnFacts DEF Within
  <1>6. UNCHANGED <<script, testedIn, spoilt>>
    BY <1>1, FlowTimers
  <1>7. Touched(c) => Touched(c)'
    BY <1>6, FlowKeepsReverts DEF Touched
  <1> QED
    BY <1>3, <1>4, <1>5, <1>6, <1>7

\* The steps up to the offer's answer, and those that only look.
LEMMA FlowSelfLooks ==
  ASSUME ApplyInv, NEW c \in Categories,
         Install(c) \/ Offer(c) \/ Validate(c) \/ Prompt(c) \/ CheckRunning(c)
           \/ CheckExecuted(c)
  PROVE  InvOf(c)'
  <1>1. FlowTypes /\ DiskTypes /\ TimerTypes /\ ScriptTypes /\ InvOf(c)
    BY TypesTogether DEF ApplyInv
  <1>2. FlowOf(c)
    BY DEF FlowOf
  <1>3. /\ ~Ahead(c)'
        /\ \A S \in SUBSET ApplySteps : Within(c, S) <=> step \in S
        /\ \A S \in SUBSET ApplySteps : Within(c, S)' => turn' = turn /\ step' \in S
        /\ Touched(c) => Touched(c)'
        /\ script'[c] = script[c] /\ testedIn'[c] = testedIn[c]
        /\ c \in spoilt' <=> c \in spoilt
    BY <1>2, FlowPlace
  <1>4. /\ UNCHANGED <<live, marker, timer, expired>>
        /\ c \in stuck => c \in stuck'
        /\ step \in {"install", "offer", "validate", "prompt"} => stuck' = stuck
    <2>1. CASE Install(c) \/ Offer(c) \/ Validate(c) \/ Prompt(c)
      BY <2>1 DEF Install, Offer, Validate, Prompt, timerVars, scriptVars
    <2>2. CASE CheckRunning(c) \/ CheckExecuted(c)
      BY <2>2 DEF CheckRunning, CheckExecuted, timerVars, At
    <2> QED
      BY <2>1, <2>2
  <1>5. /\ outcome'[c] \in {outcome[c], "skipped", "failed", "uncommitted"}
        /\ turn' = turn => outcome'[c] = outcome[c]
    <2> USE <1>1 DEF At, Goto, Ends, Abort, FlowTypes
    <2>1. CASE Install(c)
      BY <2>1 DEF Install
    <2>5. CASE Validate(c)
      <3>1. /\ turn <= Len(Order) /\ turn \in Nat /\ Len(Order) \in Nat
            /\ outcome' = outcome \/ outcome' = [outcome EXCEPT ![c] = "failed"]
            /\ outcome' = outcome \/ turn' = turn + 1
        BY <2>5, OrderFacts DEF Validate, WriteFiles
      <3> QED
        BY <3>1
    <2>2. CASE Offer(c) \/ Prompt(c)
      BY <2>2, OrderFacts DEF Offer, Prompt
    <2>3. CASE CheckRunning(c)
      BY <2>3 DEF CheckRunning
    <2>4. CASE CheckExecuted(c)
      BY <2>4 DEF CheckExecuted
    <2> QED
      BY <2>1, <2>2, <2>3, <2>4, <2>5
  <1>6. ScriptSteps(c)' /\ CommittedFor(c)' /\ Guarded(c)'
    <2>1. ScriptSteps(c)'
      BY <1>1, <1>3, <1>4 DEF InvOf, ScriptSteps
    <2>2. CommittedFor(c)'
      BY <1>1, <1>3, <1>4, <1>5 DEF InvOf, CommittedFor
    <2>3. step \in {"install", "offer", "validate"} => live[c] = "old"
      BY <1>1, <1>3 DEF InvOf, NotYetApplied, ApplySteps
    <2>4. step \in {"prompt", "check", "recheck"} => outcome[c] = "none"
      BY <1>1, <1>3 DEF InvOf, NewUntilReverted, ApplySteps
    <2>5. step \in {"install", "offer", "validate", "prompt", "check", "recheck"}
      BY DEF Install, Offer, Validate, Prompt, CheckRunning, CheckExecuted, At
    <2>6. Guarded(c)'
      BY <1>1, <1>3, <1>4, <1>5, <2>3, <2>4, <2>5 DEF InvOf, Guarded, Unconfirmed
    <2> QED
      BY <2>1, <2>2, <2>6
  <1>7. NotYetApplied(c)'
    <2>1. CASE Install(c) \/ Offer(c) \/ Validate(c)
      <3>1. step \in {"install", "offer", "validate"}
        BY <2>1 DEF Install, Offer, Validate, At
      <3> QED
        BY <1>1, <1>3, <1>4, <1>5, <3>1 DEF InvOf, NotYetApplied, ApplySteps
    <2>2. CASE Prompt(c) \/ CheckRunning(c) \/ CheckExecuted(c)
      <3>1. turn' = turn => step' \in {"check", "recheck", "disarm", "prompt"}
        BY <1>1, <2>2 DEF Prompt, CheckRunning, CheckExecuted, At, Goto, Ends, Abort, FlowTypes
      <3> QED
        BY <1>3, <3>1 DEF NotYetApplied, ApplySteps
    <2> QED
      BY <2>1, <2>2
  <1>8. ArmedFirst(c)'
    <2>1. CASE Install(c)
      <3>1. step' = "offer"
        BY <2>1 DEF Install, Goto
      <3> QED
        BY <1>3, <3>1 DEF ArmedFirst, ApplySteps
    <2>2. CASE Offer(c)
      <3>1. /\ step = "offer" /\ backup' = backup
            /\ turn' = turn => \/ step' = "validate" /\ c \in Network /\ backup[c] # "none"
                               \/ step' = "apply" /\ c \notin Network /\ backup[c] = "none"
                               \/ step' = "arm" /\ backup[c] # "none"
        BY <1>1, OrderFacts, <2>2 DEF Offer, At, Goto, Ends, Abort, FlowTypes
      <3>2. /\ live[c] = "old" /\ outcome[c] = "none" /\ c \notin stuck
            /\ testedIn[c] = "never"
        BY <1>1, <1>3, <3>1 DEF InvOf, NotYetApplied, ApplySteps
      <3> QED
        BY <1>3, <1>4, <1>5, <3>1, <3>2 DEF ArmedFirst, ApplySteps
    <2>3. CASE Validate(c)
      <3>1. /\ step = "validate" /\ backup' = backup
            /\ turn <= Len(Order) /\ turn \in Nat /\ Len(Order) \in Nat
            /\ step' = "arm" \/ turn' \in {turn + 1, Len(Order) + 1}
        BY <1>1, OrderFacts, <2>3 DEF Validate, WriteFiles, At, Goto, Ends, Abort, FlowTypes
      <3>2. turn' = turn => step' = "arm"
        BY <3>1
      <3> QED
        BY <1>1, <1>3, <3>1, <3>2 DEF InvOf, ArmedFirst, ApplySteps
    <2>4. CASE Prompt(c) \/ CheckRunning(c) \/ CheckExecuted(c)
      <3>1. turn' = turn => step' \in {"check", "recheck", "disarm", "prompt"}
        BY <1>1, <2>4 DEF Prompt, CheckRunning, CheckExecuted, At, Goto, Ends, Abort, FlowTypes
      <3> QED
        BY <1>3, <3>1 DEF ArmedFirst, ApplySteps
    <2> QED
      BY <2>1, <2>2, <2>3, <2>4
  <1>9. NewUntilReverted(c)'
    <2>1. outcome[c] = "unchanged" => live[c] = "old"
      BY <1>1 DEF InvOf, NewUntilReverted
    <2>2. CASE Install(c) \/ Offer(c)
      <3>1. /\ step \in {"install", "offer"} /\ (step = "offer" => disk' = disk)
            /\ turn' = turn => \/ step' \in {"offer", "validate"}
                               \/ step' = "apply" /\ c \notin Network
                               \/ step' = "arm" /\ c \notin Network
        BY <1>1, OrderFacts, <2>2 DEF Install, Offer, At, Goto, Ends, Abort, FlowTypes
      <3>2. outcome'[c] # "unchanged"
        BY <1>1, <1>3, <1>5, <3>1 DEF InvOf, NotYetApplied, ApplySteps
      <3> QED
        BY <1>3, <3>1, <3>2 DEF NewUntilReverted, ApplySteps
    <2>3. CASE Validate(c)
      <3>1. /\ step = "validate"
            /\ turn' = turn => step' = "arm" /\ disk' = [disk EXCEPT ![c] = "new"]
        BY <1>1, OrderFacts, <2>3 DEF Validate, WriteFiles, At, Goto, Ends, Abort, FlowTypes
      <3>2. outcome'[c] # "unchanged"
        BY <1>1, <1>3, <1>5, <3>1 DEF InvOf, NotYetApplied, ApplySteps
      <3>3. turn' = turn => disk'[c] = "new"
        BY <1>1, <3>1 DEF DiskTypes
      <3> QED
        BY <1>3, <3>1, <3>2, <3>3 DEF NewUntilReverted, ApplySteps
    <2>4. CASE Prompt(c) \/ CheckRunning(c) \/ CheckExecuted(c)
      <3>1. /\ step \in {"prompt", "check", "recheck"}
            /\ turn' = turn => step' \in {"check", "recheck", "disarm", "prompt"}
            /\ turn' = turn /\ step = "prompt" /\ step' # "prompt" => ~expired[c]
        BY <1>1, <2>4 DEF Prompt, CheckRunning, CheckExecuted, At, Goto, Ends, Abort, FlowTypes
      <3>2. outcome[c] = "none" /\ (live[c] = "new" \/ Touched(c))
        BY <1>1, <1>3, <3>1 DEF InvOf, NewUntilReverted, ApplySteps
      <3>3. ~expired[c] => testedIn[c] = "never"
        BY <1>1 DEF InvOf, ScriptSteps
      <3>4. step \in {"check", "recheck"} => testedIn[c] \in {"never", "answered"}
        BY <1>1, <1>3, <3>2 DEF InvOf, NewUntilReverted, ApplySteps
      <3> QED
        BY <1>3, <1>4, <1>5, <3>1, <3>2, <3>3, <3>4 DEF NewUntilReverted, ApplySteps
    <2> QED
      BY <2>2, <2>3, <2>4
  <1> QED
    BY <1>6, <1>7, <1>8, <1>9 DEF InvOf

\* The guard is put up.
LEMMA FlowSelfArms ==
  ASSUME ApplyInv, NEW c \in Categories, Arm(c) \/ StartTimer(c)
  PROVE  InvOf(c)'
  <1>1. FlowTypes /\ DiskTypes /\ TimerTypes /\ ScriptTypes /\ InvOf(c)
    BY TypesTogether DEF ApplyInv
  <1>2. FlowOf(c)
    BY DEF FlowOf
  <1>3. /\ ~Ahead(c)'
        /\ \A S \in SUBSET ApplySteps : Within(c, S) <=> step \in S
        /\ \A S \in SUBSET ApplySteps : Within(c, S)' => turn' = turn /\ step' \in S
        /\ Touched(c) => Touched(c)'
        /\ script'[c] = script[c] /\ testedIn'[c] = testedIn[c]
        /\ c \in spoilt' <=> c \in spoilt
    BY <1>2, FlowPlace
  <1>4. /\ step \in {"arm", "timer"} /\ turn \in Nat
        /\ UNCHANGED <<backup, disk, live, stuck>>
    BY <1>1, OrderFacts DEF Arm, StartTimer, At, scriptVars, FlowTypes
  <1>5. /\ timer[c] = "unset" /\ script[c] = "off" /\ testedIn[c] = "never"
        /\ live[c] = "old" /\ outcome[c] = "none" /\ c \notin stuck
        /\ backup[c] # "none"
    BY <1>1, <1>3, <1>4 DEF InvOf, NotYetApplied, ArmedFirst, ApplySteps
  <1>6. /\ outcome'[c] \in {"none", "failed"}
        /\ turn' = turn => /\ outcome'[c] = "none"
                           /\ \/ step = "arm" /\ step' = "timer" /\ marker'[c]
                                   /\ timer'[c] = "unset"
                              \/ step = "timer" /\ step' = "apply" /\ timer'[c] = "set"
                                   /\ marker' = marker
    <2>1. CASE Arm(c)
      <3>1. turn' = turn => /\ outcome' = outcome /\ step = "arm" /\ step' = "timer"
                            /\ marker' = [marker EXCEPT ![c] = TRUE] /\ timer' = timer
        BY <1>4, <2>1 DEF Arm, Goto, Ends, At
      <3>2. outcome' \in {outcome, [outcome EXCEPT ![c] = "failed"]}
        BY <2>1 DEF Arm, Goto, Ends
      <3> QED
        BY <1>1, <1>5, <3>1, <3>2 DEF FlowTypes, TimerTypes
    <2>2. CASE StartTimer(c)
      <3>1. turn' = turn => /\ outcome' = outcome /\ step = "timer" /\ step' = "apply"
                            /\ timer' = [timer EXCEPT ![c] = "set"] /\ marker' = marker
        BY <1>4, <2>2 DEF StartTimer, Goto, Ends, At
      <3>2. outcome' \in {outcome, [outcome EXCEPT ![c] = "failed"]}
        BY <2>2 DEF StartTimer, Goto, Ends
      <3> QED
        BY <1>1, <1>5, <3>1, <3>2 DEF FlowTypes, TimerTypes
    <2> QED
      BY <2>1, <2>2
  <1>7. NotYetApplied(c)'
    BY <1>3, <1>4, <1>5, <1>6 DEF NotYetApplied, ApplySteps
  <1>8. ArmedFirst(c)'
    <2>1. step = "timer" => marker[c]
      BY <1>1, <1>3, <1>4 DEF InvOf, ArmedFirst, ApplySteps
    <2> QED
      BY <1>3, <1>4, <1>5, <1>6, <2>1 DEF ArmedFirst, ApplySteps
  <1>9. ScriptSteps(c)' /\ CommittedFor(c)' /\ Guarded(c)'
    BY <1>3, <1>4, <1>5, <1>6 DEF ScriptSteps, CommittedFor, Guarded, Unconfirmed
  <1>10. NewUntilReverted(c)'
    <2>1. c \in Network => disk[c] = "new" \/ Touched(c)
      BY <1>1, <1>3, <1>4 DEF InvOf, NewUntilReverted, ApplySteps
    <2> QED
      BY <1>3, <1>4, <1>5, <1>6, <2>1 DEF NewUntilReverted, ApplySteps
  <1> QED
    BY <1>7, <1>8, <1>9, <1>10 DEF InvOf

\* What is in effect is new.
LEMMA FlowSelfApplies ==
  ASSUME ApplyInv, NEW c \in Categories, Apply(c)
  PROVE  InvOf(c)'
  <1>1. FlowTypes /\ DiskTypes /\ TimerTypes /\ ScriptTypes /\ InvOf(c)
    BY TypesTogether DEF ApplyInv
  <1>2. FlowOf(c)
    BY DEF FlowOf
  <1>3. /\ ~Ahead(c)'
        /\ \A S \in SUBSET ApplySteps : Within(c, S) <=> step \in S
        /\ \A S \in SUBSET ApplySteps : Within(c, S)' => turn' = turn /\ step' \in S
        /\ Touched(c) => Touched(c)'
        /\ script'[c] = script[c] /\ testedIn'[c] = testedIn[c]
        /\ c \in spoilt' <=> c \in spoilt
    BY <1>2, FlowPlace
  <1>4. /\ step = "apply" /\ turn \in Nat
        /\ UNCHANGED <<backup, marker, timer, expired, stuck>>
    BY <1>1, OrderFacts DEF Apply, At, timerVars, scriptVars, FlowTypes
  <1>5. /\ live[c] = "old" /\ outcome[c] = "none" /\ c \notin stuck
        /\ testedIn[c] \in {"never", "applying"}
        /\ backup[c] = "none" => c \notin Network
        /\ backup[c] # "none" /\ testedIn[c] = "never" =>
             marker[c] /\ (timer[c] = "set" \/ script[c] = "test")
    BY <1>1, <1>3, <1>4 DEF InvOf, ArmedFirst, ApplySteps
  <1>6. \/ /\ outcome'[c] = "none" /\ live'[c] = Applied(c) /\ backup[c] # "none"
           /\ step' = "prompt"
        \/ /\ outcome'[c] \in {"unguarded", "failed", "uncommitted"} /\ turn' # turn
           /\ backup[c] = "none" => outcome'[c] = "unguarded"
        \/ outcome'[c] = "unchanged" /\ live'[c] = "old" /\ (turn' = turn => step' = "disarm")
    <2>1. CASE /\ live' = [live EXCEPT ![c] = Applied(c)]
               /\ IF backup[c] = "none" THEN Ends(c, "unguarded") ELSE Goto("prompt")
      BY <1>1, <1>4, <1>5, <2>1 DEF FlowTypes, DiskTypes, Ends, Goto
    <2>2. CASE Ends(c, IF backup[c] = "none" THEN "unguarded"
                       ELSE IF c \in Network THEN "uncommitted" ELSE "failed")
      BY <1>1, <1>4, <2>2 DEF FlowTypes, Ends
    <2>3. CASE /\ outcome' = [outcome EXCEPT ![c] = "unchanged"]
               /\ IF backup[c] = "none" THEN turn' = turn + 1 /\ step' = "install"
                                        ELSE step' = "disarm" /\ UNCHANGED turn
               /\ live' = live
      BY <1>1, <1>4, <1>5, <2>3 DEF FlowTypes
    <2> QED
      BY <2>1, <2>2, <2>3 DEF Apply
  <1>7. NotYetApplied(c)' /\ ArmedFirst(c)' /\ ScriptSteps(c)' /\ CommittedFor(c)'
    <2>1. NotYetApplied(c)' /\ ArmedFirst(c)'
      BY <1>3, <1>6 DEF NotYetApplied, ArmedFirst, ApplySteps
    <2>2. ScriptSteps(c)'
      BY <1>1, <1>3, <1>4 DEF InvOf, ScriptSteps
    <2>3. CommittedFor(c)'
      BY <1>6 DEF CommittedFor
    <2> QED
      BY <2>1, <2>2, <2>3
  <1>8. Guarded(c)'
    BY <1>3, <1>4, <1>5, <1>6 DEF Guarded, Unconfirmed
  <1>9. NewUntilReverted(c)'
    <2>1. Applied(c) = "new" \/ Touched(c)
      BY <1>1, <1>3, <1>4 DEF InvOf, NewUntilReverted, ApplySteps, Applied
    <2> QED
      BY <1>3, <1>6, <2>1 DEF NewUntilReverted, ApplySteps
  <1> QED
    BY <1>7, <1>8, <1>9 DEF InvOf

\* The guard is taken down, once the operator has confirmed.
LEMMA FlowSelfDisarms ==
  ASSUME ApplyInv, NEW c \in Categories, RemoveMarker(c) \/ StopTimer(c)
  PROVE  InvOf(c)'
  <1>1. FlowTypes /\ DiskTypes /\ TimerTypes /\ ScriptTypes /\ InvOf(c)
    BY TypesTogether DEF ApplyInv
  <1>2. FlowOf(c)
    BY DEF FlowOf
  <1>3. /\ ~Ahead(c)'
        /\ \A S \in SUBSET ApplySteps : Within(c, S) <=> step \in S
        /\ \A S \in SUBSET ApplySteps : Within(c, S)' => turn' = turn /\ step' \in S
        /\ Touched(c) => Touched(c)'
        /\ script'[c] = script[c] /\ testedIn'[c] = testedIn[c]
        /\ c \in spoilt' <=> c \in spoilt
    BY <1>2, FlowPlace
  <1>4. step \in {"disarm", "stop"} /\ UNCHANGED <<backup, disk, live, expired>>
    BY DEF RemoveMarker, StopTimer, At
  <1>5. /\ step = "disarm" => outcome[c] \in {"none", "unchanged"}
        /\ step = "disarm" /\ outcome[c] = "none" =>
             /\ live[c] = "new" \/ Touched(c)
             /\ testedIn[c] \in {"never", "answered"}
        /\ step = "stop" => outcome[c] \in {"committed", "unchanged"}
        /\ outcome[c] = "unchanged" => live[c] = "old"
    BY <1>1, <1>3, <1>4 DEF InvOf, NewUntilReverted, ApplySteps
  <1>6. CASE RemoveMarker(c)
    <2>1. /\ step = "disarm" /\ step' = "stop" /\ timer' = timer
          /\ outcome'[c] = IF outcome[c] = "unchanged" THEN "unchanged" ELSE "committed"
          /\ ~marker'[c] \/ c \in stuck'
      BY <1>1, <1>6 DEF RemoveMarker, At, FlowTypes, TimerTypes
    <2>2. NotYetApplied(c)' /\ ArmedFirst(c)' /\ ScriptSteps(c)'
      <3>1. NotYetApplied(c)' /\ ArmedFirst(c)'
        BY <1>3, <2>1 DEF NotYetApplied, ArmedFirst, ApplySteps
      <3>2. ScriptSteps(c)'
        BY <1>1, <1>3, <1>4, <2>1 DEF InvOf, ScriptSteps
      <3> QED
        BY <3>1, <3>2
    <2>3. NewUntilReverted(c)'
      BY <1>3, <1>4, <1>5, <2>1 DEF NewUntilReverted, ApplySteps
    <2>4. CommittedFor(c)'
      BY <1>3, <1>4, <1>5, <2>1 DEF CommittedFor
    <2>5. Guarded(c)'
      BY <1>4, <1>5, <2>1 DEF Guarded, Unconfirmed
    <2> QED
      BY <2>2, <2>3, <2>4, <2>5 DEF InvOf
  <1>7. CASE StopTimer(c)
    <2>1. /\ step = "stop" /\ marker' = marker /\ stuck' = stuck /\ turn' # turn
          /\ outcome'[c] = outcome[c]
          /\ timer'[c] = timer[c] \/ (timer[c] = "set" /\ timer'[c] = "stopped")
      <3>1. step = "stop" /\ marker' = marker /\ stuck' = stuck
        BY <1>7 DEF StopTimer, At, scriptVars
      <3>2. turn' # turn
        BY <1>1, <1>7, OrderFacts DEF StopTimer, Ends, FlowTypes
      <3>3. outcome'[c] = outcome[c]
        BY <1>1, <1>7 DEF StopTimer, Ends, FlowTypes
      <3>4. timer'[c] = timer[c] \/ (timer[c] = "set" /\ timer'[c] = "stopped")
        BY <1>1, <1>7 DEF StopTimer, TimerTypes
      <3> QED
        BY <3>1, <3>2, <3>3, <3>4
    <2>2. NotYetApplied(c)' /\ ArmedFirst(c)' /\ ScriptSteps(c)'
      <3>1. NotYetApplied(c)' /\ ArmedFirst(c)'
        BY <1>3, <2>1 DEF NotYetApplied, ArmedFirst, ApplySteps
      <3>2. ScriptSteps(c)'
        BY <1>1, <1>3, <1>4, <2>1 DEF InvOf, ScriptSteps
      <3> QED
        BY <3>1, <3>2
    <2>3. NewUntilReverted(c)'
      BY <1>3, <1>4, <1>5, <2>1 DEF NewUntilReverted, ApplySteps
    <2>4. CommittedFor(c)'
      BY <1>1, <1>3, <1>4, <2>1 DEF InvOf, CommittedFor
    <2>5. Guarded(c)'
      BY <1>4, <1>5, <2>1 DEF Guarded, Unconfirmed
    <2> QED
      BY <2>2, <2>3, <2>4, <2>5 DEF InvOf
  <1> QED
    BY <1>6, <1>7

-----------------------------------------------------------------------------
\* A step of the timer or the script of c: well formed, and another category is
\* concerned only by the archive of everything, found again as RevertedWithAnother.
LEMMA RollbackEffect ==
  ASSUME ApplyInv, NEW c \in Categories, Rollback(c)
  PROVE  /\ ApplyTypeOK'
         /\ UNCHANGED <<turn, step, backup, outcome, stuck>>
         /\ testedIn[c] # "never" => testedIn'[c] # "never"
         /\ \A q \in Categories \ {c} :
              /\ marker'[q] = marker[q] /\ timer'[q] = timer[q] /\ expired'[q] = expired[q]
              /\ running'[q] = running[q] /\ script'[q] = script[q]
              /\ testedIn'[q] = testedIn[q]
              /\ q \in spoilt' <=> q \in spoilt
              /\ \/ disk'[q] = disk[q] /\ live'[q] = live[q]
                 \/ /\ disk'[q] = "old" /\ live'[q] \in {"old", live[q]}
                    /\ RevertedWithAnother(q)
  <1>1. FlowTypes /\ DiskTypes /\ TimerTypes /\ ScriptTypes
    BY TypesTogether DEF ApplyInv
  <1>2. UNCHANGED <<turn, step, backup, outcome, stuck>>
    BY DEF Rollback, Expire, Fire, ScriptTest, ScriptSignal, ScriptRevert, ScriptFinish,
           flowVars, scriptVars
  <1>3. FlowTypes'
    BY <1>1, <1>2 DEF FlowTypes
  <1>4. CASE Expire(c) \/ Fire(c) \/ ScriptFinish(c)
    <2>1. /\ TimerTypes' /\ ScriptTypes' /\ disk' = disk /\ live' = live
          /\ testedIn' = testedIn /\ spoilt' = spoilt
      <3>1. CASE Expire(c)
        BY <1>1, <3>1 DEF Expire, TimerTypes, ScriptTypes, scriptVars
      <3>2. CASE Fire(c)
        BY <1>1, <3>2 DEF Fire, TimerTypes, ScriptTypes
      <3>3. CASE ScriptFinish(c)
        BY <1>1, <3>3 DEF ScriptFinish, TimerTypes, ScriptTypes
      <3> QED
        BY <1>4, <3>1, <3>2, <3>3
    <2>2. \A q \in Categories \ {c} :
            /\ marker'[q] = marker[q] /\ timer'[q] = timer[q] /\ expired'[q] = expired[q]
            /\ running'[q] = running[q] /\ script'[q] = script[q]
      BY <1>1, <1>4 DEF Expire, Fire, ScriptFinish, TimerTypes, ScriptTypes, scriptVars
    <2> QED
      BY <1>1, <1>2, <1>3, <2>1, <2>2, TypesPrimed DEF DiskTypes
  <1>5. CASE ScriptTest(c) \/ ScriptSignal(c)
    <2>1. /\ UNCHANGED timerVars /\ disk' = disk /\ live' = live /\ spoilt' = spoilt
          /\ ScriptTypes' /\ (testedIn[c] # "never" => testedIn'[c] # "never")
          /\ \A q \in Categories \ {c} :
               /\ running'[q] = running[q] /\ script'[q] = script[q]
               /\ testedIn'[q] = testedIn[q]
      <3>1. CASE ScriptTest(c)
        <4>1. Progress(c) \in {"applying", "answered", "other"}
          BY DEF Progress
        <4> QED
          BY <1>1, <3>1, <4>1 DEF ScriptTest, ScriptTypes
      <3>2. CASE ScriptSignal(c)
        BY <1>1, <3>2 DEF ScriptSignal, ScriptTypes
      <3> QED
        BY <1>5, <3>1, <3>2
    <2>2. TimerTypes' /\ DiskTypes'
      BY <1>1, <2>1 DEF TimerTypes, DiskTypes, timerVars
    <2> QED
      BY <1>2, <1>3, <2>1, <2>2, TypesPrimed DEF timerVars
  <1>6. CASE ScriptRevert(c)
    <2>1. /\ UNCHANGED <<marker, unit, timer, expired, running, testedIn>> /\ ScriptTypes'
          /\ \A q \in Categories \ {c} :
               script'[q] = script[q] /\ (q \in spoilt' <=> q \in spoilt)
      BY <1>1, <1>6 DEF ScriptRevert, ScriptTypes, timerVars
    <2>2. DiskTypes' /\ TimerTypes'
      BY <1>1, <1>6, <2>1 DEF ScriptRevert, DiskTypes, TimerTypes
    <2>3. ASSUME NEW q \in Categories \ {c}
          PROVE  \/ disk'[q] = disk[q] /\ live'[q] = live[q]
                 \/ /\ disk'[q] = "old" /\ live'[q] \in {"old", live[q]}
                    /\ RevertedWithAnother(q)
      <3>1. testedIn[c] # "never"
        BY <1>6 DEF ScriptRevert, ApplyInv, InvOf, ScriptSteps
      <3>2. Covers(c, q) => RevertedWithAnother(q)
        BY <2>3, <3>1 DEF Covers, RevertedWithAnother
      <3> QED
        BY <1>6, <2>3, <3>2 DEF ScriptRevert
    <2> QED
      BY <1>2, <1>3, <2>1, <2>2, <2>3, TypesPrimed
  <1> QED
    BY <1>4, <1>5, <1>6 DEF Rollback

LEMMA RollbackKeepsReverts ==
  ASSUME ApplyInv, NEW c \in Categories, Rollback(c), NEW q \in Categories
  PROVE  /\ RevertedWithAnother(q) => RevertedWithAnother(q)'
         /\ Touched(q) => Touched(q)'
  <1>1. \A d \in Categories : testedIn[d] # "never" => testedIn'[d] # "never"
    BY RollbackEffect
  <1>2. backup' = backup
    BY RollbackEffect
  <1>3. RevertedWithAnother(q) => RevertedWithAnother(q)'
    BY <1>1, <1>2 DEF RevertedWithAnother
  <1> QED
    BY <1>1, <1>3 DEF Touched

LEMMA RollbackOthers ==
  ASSUME ApplyInv, NEW c \in Categories, Rollback(c), NEW q \in Categories \ {c}
  PROVE  InvOf(q)'
  <1>1. /\ UNCHANGED <<turn, step, backup, outcome, stuck>>
        /\ marker'[q] = marker[q] /\ timer'[q] = timer[q] /\ expired'[q] = expired[q]
        /\ script'[q] = script[q] /\ testedIn'[q] = testedIn[q] /\ running'[q] = running[q]
        /\ q \in spoilt' <=> q \in spoilt
    BY RollbackEffect
  <1>2. /\ \/ disk'[q] = disk[q] /\ live'[q] = live[q]
           \/ /\ disk'[q] = "old" /\ live'[q] \in {"old", live[q]}
              /\ RevertedWithAnother(q)
    BY RollbackEffect
  <1>3. RevertedWithAnother(q) => RevertedWithAnother(q)'
    BY RollbackKeepsReverts
  <1>4. /\ Ahead(q)' <=> Ahead(q)
        /\ \A S \in SUBSET ApplySteps : Within(q, S)' <=> Within(q, S)
    BY <1>1 DEF Ahead, Within
  <1>5. CASE disk'[q] = disk[q] /\ live'[q] = live[q]
    <2>1. Kept(q)
      BY <1>1, <1>5 DEF Kept
    <2> QED
      BY <1>3, <1>4, <2>1, KeptSteps DEF ApplyInv
  <1>6. CASE /\ disk'[q] = "old" /\ live'[q] \in {"old", live[q]}
             /\ RevertedWithAnother(q)
    <2> USE <1>1, <1>4, <1>6 DEF ApplyInv, InvOf, ApplySteps
    <2>1. Touched(q)'
      BY <1>3 DEF Touched
    <2>2. NotYetApplied(q)'
      BY DEF NotYetApplied
    <2>3. ArmedFirst(q)'
      BY DEF ArmedFirst
    <2>4. ScriptSteps(q)'
      BY DEF ScriptSteps
    <2>5. NewUntilReverted(q)'
      BY <2>1 DEF NewUntilReverted
    <2>6. CommittedFor(q)'
      BY <2>1 DEF CommittedFor
    <2>7. Guarded(q)'
      BY DEF Guarded, Unconfirmed
    <2> QED
      BY <2>2, <2>3, <2>4, <2>5, <2>6, <2>7
  <1> QED
    BY <1>2, <1>5, <1>6

LEMMA RollbackSelf ==
  ASSUME ApplyInv, NEW c \in Categories, Rollback(c)
  PROVE  InvOf(c)'
  <1>1. FlowTypes /\ DiskTypes /\ TimerTypes /\ ScriptTypes /\ InvOf(c)
    BY TypesTogether DEF ApplyInv
  <1>2. UNCHANGED <<turn, step, backup, outcome, stuck>>
    BY RollbackEffect
  <1>3. Touched(c) => Touched(c)'
    BY RollbackKeepsReverts
  <1>4. /\ Ahead(c)' <=> Ahead(c)
        /\ \A S \in SUBSET ApplySteps : Within(c, S)' <=> Within(c, S)
    BY <1>2 DEF Ahead, Within
  <1> USE <1>2, <1>4 DEF ApplySteps
  <1>5. CASE Expire(c)
    <2>1. /\ UNCHANGED <<marker, timer, script, testedIn, live, disk, spoilt>>
          /\ expired'[c] = TRUE
      BY <1>1, <1>5 DEF Expire, TimerTypes, scriptVars
    <2>2. NotYetApplied(c)' /\ ArmedFirst(c)'
      BY <1>1, <2>1 DEF InvOf, NotYetApplied, ArmedFirst
    <2>3. ScriptSteps(c)'
      BY <1>1, <2>1 DEF InvOf, ScriptSteps
    <2>4. NewUntilReverted(c)' /\ CommittedFor(c)'
      BY <1>1, <1>3, <2>1 DEF InvOf, NewUntilReverted, CommittedFor
    <2>5. Guarded(c)'
      BY <1>1, <2>1 DEF InvOf, Guarded, Unconfirmed
    <2> QED
      BY <2>2, <2>3, <2>4, <2>5 DEF InvOf
  <1>6. CASE Fire(c)
    <2>1. /\ UNCHANGED <<marker, expired, testedIn, live, disk, spoilt>>
          /\ expired[c] /\ timer[c] = "set" /\ timer'[c] = "fired" /\ script'[c] = "test"
      BY <1>1, <1>6 DEF Fire, TimerTypes, ScriptTypes
    <2>2. script[c] = "off" /\ testedIn[c] = "never"
      BY <1>1, <2>1 DEF InvOf, ScriptSteps, ScriptTypes
    <2>3. NotYetApplied(c)' /\ ArmedFirst(c)'
      BY <1>1, <2>1 DEF InvOf, NotYetApplied, ArmedFirst
    <2>4. ScriptSteps(c)'
      BY <2>1, <2>2 DEF ScriptSteps
    <2>5. NewUntilReverted(c)' /\ CommittedFor(c)'
      BY <1>1, <1>3, <2>1 DEF InvOf, NewUntilReverted, CommittedFor
    <2>6. Guarded(c)'
      BY <1>1, <2>1 DEF InvOf, Guarded, Unconfirmed
    <2> QED
      BY <2>3, <2>4, <2>5, <2>6 DEF InvOf
  <1>7. CASE ScriptTest(c)
    <2>1. /\ UNCHANGED <<marker, timer, expired, live, disk, spoilt>>
          /\ script[c] = "test"
          /\ \/ ~marker[c] /\ script'[c] = "done" /\ testedIn' = testedIn
             \/ /\ marker[c] /\ script'[c] \in {"signal", "revert"}
                /\ testedIn'[c] = Progress(c)
      BY <1>1, <1>7 DEF ScriptTest, ScriptTypes, timerVars
    <2>2. timer[c] = "fired" /\ expired[c] /\ testedIn[c] = "never"
      BY <1>1, <2>1 DEF InvOf, ScriptSteps
    <2>3. /\ Within(c, {"timer", "apply"}) <=> At(c, "timer") \/ At(c, "apply")
          /\ Within(c, {"check", "recheck", "disarm"})
               <=> At(c, "check") \/ At(c, "recheck") \/ At(c, "disarm")
      BY DEF Within, At
    <2>4. /\ Progress(c) # "never"
          /\ Within(c, {"apply"}) => Progress(c) = "applying"
          /\ Within(c, {"check", "recheck", "disarm"}) => Progress(c) = "answered"
      BY <2>3 DEF Progress, Within, At
    <2>5. NotYetApplied(c)' /\ ScriptSteps(c)'
      BY <1>1, <2>1, <2>2, <2>4 DEF InvOf, NotYetApplied, ScriptSteps
    <2>6. ArmedFirst(c)'
      BY <1>1, <2>1, <2>2, <2>4 DEF InvOf, ArmedFirst
    <2>7. NewUntilReverted(c)'
      BY <1>1, <1>3, <2>1, <2>4 DEF InvOf, NewUntilReverted
    <2>8. CommittedFor(c)'
      BY <1>1, <1>3, <2>1 DEF InvOf, CommittedFor
    <2>9. Guarded(c)'
      BY <1>1, <2>1, <2>2 DEF InvOf, Guarded, Unconfirmed
    <2> QED
      BY <2>5, <2>6, <2>7, <2>8, <2>9 DEF InvOf
  <1>8. CASE ScriptSignal(c) \/ ScriptRevert(c) \/ ScriptFinish(c)
    <2>1. /\ UNCHANGED <<timer, expired, testedIn>>
          /\ script[c] \in {"signal", "revert", "finish"}
          /\ script'[c] \in {"revert", "finish", "done"}
          /\ marker'[c] = marker[c] \/ (marker'[c] = FALSE /\ script[c] = "finish")
          /\ script'[c] # "revert" =>
               script[c] = "finish" \/ live'[c] = "old" \/ c \in spoilt'
          /\ spoilt \subseteq spoilt' /\ live'[c] \in {live[c], "old"}
      <3>1. CASE ScriptSignal(c)
        BY <1>1, <3>1 DEF ScriptSignal, ScriptTypes, timerVars
      <3>2. CASE ScriptRevert(c)
        <4>1. /\ script[c] = "revert" /\ script'[c] = "finish"
              /\ UNCHANGED <<marker, timer, expired, testedIn>>
          BY <1>1, <3>2 DEF ScriptRevert, ScriptTypes, timerVars
        <4>2. \/ live'[c] = "old" /\ spoilt' = spoilt
              \/ c \in spoilt' /\ live'[c] = live[c] /\ spoilt \subseteq spoilt'
          BY <1>1, <3>2 DEF ScriptRevert, Covers, DiskTypes
        <4> QED
          BY <4>1, <4>2
      <3>3. CASE ScriptFinish(c)
        BY <1>1, <3>3 DEF ScriptFinish, ScriptTypes, TimerTypes
      <3> QED
        BY <1>8, <3>1, <3>2, <3>3
    <2>2. timer[c] = "fired" /\ expired[c] /\ testedIn[c] # "never" /\ Touched(c)'
      BY <1>1, <1>3, <2>1 DEF InvOf, ScriptSteps, Touched
    <2>3. NotYetApplied(c)' /\ ScriptSteps(c)'
      BY <1>1, <2>1, <2>2 DEF InvOf, NotYetApplied, ScriptSteps
    <2>4. ArmedFirst(c)'
      <3>1. ~Within(c, {"timer"})
        BY <1>1, <2>2 DEF InvOf, NotYetApplied, Within
      <3> QED
        BY <1>1, <2>1, <2>2, <3>1 DEF InvOf, ArmedFirst
    <2>5. NewUntilReverted(c)'
      BY <1>1, <2>1, <2>2 DEF InvOf, NewUntilReverted
    <2>6. CommittedFor(c)'
      BY <1>1, <2>1, <2>2 DEF InvOf, CommittedFor
    <2>7. Guarded(c)'
      BY <1>1, <2>1, <2>2 DEF InvOf, Guarded, Unconfirmed
    <2> QED
      BY <2>3, <2>4, <2>5, <2>6, <2>7 DEF InvOf
  <1> QED
    BY <1>5, <1>6, <1>7, <1>8 DEF Rollback

-----------------------------------------------------------------------------
LEMMA ApplyInvAlways == ApplySpec => []ApplyInv
  <1>1. ApplyInit => ApplyInv
    <2> SUFFICES ASSUME ApplyInit
                 PROVE  ApplyInv
      OBVIOUS
    <2> USE DEF ApplyInit
    <2>1. ApplyTypeOK
      BY OrderFacts DEF ApplyTypeOK, ApplySteps, Outcomes
    <2>2. ASSUME NEW c \in Categories
          PROVE  InvOf(c)
      <3>1. /\ timer[c] = "unset" /\ script[c] = "off" /\ testedIn[c] = "never"
            /\ live[c] = "old" /\ outcome[c] = "none" /\ c \notin stuck
        OBVIOUS
      <3>2. \A S \in SUBSET ApplySteps : Within(c, S) => "install" \in S
        BY DEF Within
      <3> QED
        BY <3>1, <3>2 DEF InvOf, NotYetApplied, ArmedFirst, ScriptSteps, NewUntilReverted,
           CommittedFor, Guarded, Unconfirmed, ApplySteps
    <2> QED
      BY <2>1, <2>2 DEF ApplyInv
  <1>2. ApplyInv /\ [ApplyNext]_applyVars => ApplyInv'
    <2> SUFFICES ASSUME ApplyInv, [ApplyNext]_applyVars
                 PROVE  ApplyInv'
      OBVIOUS
    <2>0. FlowTypes /\ DiskTypes /\ TimerTypes /\ ScriptTypes
      BY TypesTogether DEF ApplyInv
    <2>1. CASE Flow
      <3>1. PICK c \in Categories : FlowOf(c)
        BY <2>1 DEF Flow, FlowOf
      <3>2. ApplyTypeOK'
        BY <2>0, <3>1, FlowTurns, FlowDisk, FlowTimers, TypesPrimed
      <3>3. InvOf(c)'
        BY <3>1, FlowSelfLooks, FlowSelfArms, FlowSelfApplies, FlowSelfDisarms DEF FlowOf
      <3>4. \A q \in Categories \ {c} : InvOf(q)'
        BY <3>1, FlowOthers
      <3> QED
        BY <3>2, <3>3, <3>4 DEF ApplyInv
    <2>2. CASE FlowDies \/ UNCHANGED applyVars
      <3>1. /\ step' = step /\ (turn' = turn \/ turn' = Len(Order) + 1)
            /\ UNCHANGED <<backup, outcome, marker, unit, timer, expired, running, script,
                           testedIn, spoilt, stuck, disk, live>>
        BY <2>2 DEF FlowDies, applyVars, flowVars, timerVars, scriptVars
      <3>2. ApplyTypeOK'
        BY <2>0, <3>1, OrderFacts DEF ApplyTypeOK, FlowTypes, DiskTypes, TimerTypes,
           ScriptTypes
      <3>3. ASSUME NEW q \in Categories
            PROVE  InvOf(q)'
        <4>1. Kept(q) /\ (RevertedWithAnother(q) => RevertedWithAnother(q)')
          BY <3>1 DEF Kept, RevertedWithAnother
        <4>2. Ahead(q)' => Ahead(q)
          BY <2>0, <3>1, OrderFacts DEF Ahead, FlowTypes
        <4>3. \A S \in SUBSET ApplySteps : Within(q, S)' => Within(q, S)
          BY <2>0, <3>1, OrderFacts DEF Within, FlowTypes
        <4> QED
          BY <4>1, <4>2, <4>3, KeptSteps DEF ApplyInv
      <3> QED
        BY <3>2, <3>3 DEF ApplyInv
    <2>3. CASE \E c \in Categories : Rollback(c)
      <3>1. PICK c \in Categories : Rollback(c)
        BY <2>3
      <3>2. ApplyTypeOK'
        BY <3>1, RollbackEffect
      <3>3. InvOf(c)' /\ \A q \in Categories \ {c} : InvOf(q)'
        BY <3>1, RollbackSelf, RollbackOthers
      <3> QED
        BY <3>2, <3>3 DEF ApplyInv
    <2> QED
      BY <2>1, <2>2, <2>3 DEF ApplyNext
  <1> QED
    BY <1>1, <1>2, PTL DEF ApplySpec

\* Every state of the applies is well formed, for every order of categories.
THEOREM ApplyTypeCorrect == ApplySpec => []ApplyTypeOK
  BY ApplyInvAlways, PTL DEF ApplyInv

\* What the operator confirmed stays in effect, but for a marker that could not be
\* removed, another category's archive of everything, or a script that found the
\* marker between the confirmation and its removal.
THEOREM CommittedConfigurationStays == ApplySpec => []CommittedStays
  <1>1. ApplyInv => CommittedStays
    BY DEF ApplyInv, InvOf, CommittedFor, CommittedStays, Touched
  <1> QED
    BY <1>1, ApplyInvAlways, PTL

\* What is in effect and was not confirmed is always under guard.
THEOREM GuardIsNeverDown == ApplySpec => []UnconfirmedIsGuarded
  <1>1. ApplyInv => UnconfirmedIsGuarded
    BY DEF ApplyInv, InvOf, Guarded, UnconfirmedIsGuarded
  <1> QED
    BY <1>1, ApplyInvAlways, PTL
=============================================================================
