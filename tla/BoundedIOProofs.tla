---------------------------- MODULE BoundedIOProofs ---------------------------
(***************************************************************************)
(* Theorems about file operations on a mount that may stop answering       *)
(* (BoundedIO), for any number of slots, any set of other callers and any  *)
(* length of the file.                                                     *)
(*                                                                         *)
(* The inductive invariant says what has become of the goroutine a caller  *)
(* waits at or has given up on (CallersKnow), and of those the copy has    *)
(* passed (LeftBehind); that the slots in use are those of the goroutines  *)
(* in the kernel (SlotsCounted); and what is in the file at each step of   *)
(* the copy (WrittenInOrder).  The copy of a chunk that was abandoned ends *)
(* the copy before the rename, so no goroutine is left that could write to *)
(* a file that has its final name.                                         *)
(***************************************************************************)
EXTENDS BoundedIO, FiniteSetTheorems, TLAPS

\* The order of the steps of a copy, some of which it skips when it has failed.
Rank == [s \in CopySteps \cup {"end"} |->
          CASE s = "prepare"     -> 1
            [] s = "create"      -> 2
            [] s = "open"        -> 3
            [] s = "chunk"       -> 4
            [] s = "sync"        -> 5
            [] s = "close"       -> 6
            [] s = "mirror"      -> 7
            [] s = "rename"      -> 8
            [] s = "closeSource" -> 9
            [] s = "closeTemp"   -> 10
            [] s = "remove"      -> 11
            [] s = "end"         -> 12]

\* What a caller has come to, and what has become of the goroutine of its operation.
Knows(c) ==
  /\ Op(c) = "end" => call[c] = "idle"
  /\ Op(c) # "end" =>
       /\ call[c] \notin {"waiting", "abandoned"} => worker[Op(c)] = "none"
       /\ call[c] = "waiting" => worker[Op(c)] # "none"
       /\ call[c] = "abandoned" => worker[Op(c)] \in {"none", "busy"}
       /\ call[c] = "queued" => Limited(Op(c))

CallersKnow == \A c \in Callers : Knows(c)

\* The goroutines of the steps a copy has left, and of those it has not come to.
LeftBehind ==
  \A o \in CopySteps \ {step} :
    /\ worker[o] \in {"none", "busy"}
    /\ Rank[o] > Rank[step] => worker[o] = "none"

\* A slot is taken for each goroutine that is in the kernel, abandoned or not.
Busy == {o \in Operations : Limited(o) /\ worker[o] = "busy"}
SlotsCounted == IsFiniteSet(Busy) /\ inUse = Cardinality(Busy)

\* What is in the file at each step, and that nothing late changes a whole one.
WrittenInOrder ==
  /\ file.synced <= file.written
  /\ step \in {"prepare", "create", "open"} => file.written = 0
  /\ worker["chunk"] = "busy" => file.written < Chunks
  /\ step = "chunk" /\ call["copy"] \in {"idle", "inline"} => file.written < Chunks
  /\ step \in {"sync", "close", "mirror", "rename"} => file.written = Chunks
  /\ \/ step \in {"close", "mirror", "rename"} \/ worker["rename"] # "none"
     \/ step = "sync" /\ (call["copy"] = "ok" \/ worker["sync"] = "ok")
     \/ file.final
     => Whole
  /\ step \notin Cleanups \cup {"end"} => copied = "not yet"
  /\ step = "rename" /\ (call["copy"] = "ok" \/ worker["rename"] = "ok") => file.final
  /\ copied = "ok" => file.final

IOInv == IOTypeOK /\ CallersKnow /\ LeftBehind /\ SlotsCounted /\ WrittenInOrder

-----------------------------------------------------------------------------
LEMMA StepFacts ==
  /\ CopySteps \cup {"end"} = {"prepare", "create", "open", "chunk", "sync", "close", "mirror",
                               "rename", "closeSource", "closeTemp", "remove", "end"}
  /\ Rank["prepare"] = 1 /\ Rank["create"] = 2 /\ Rank["open"] = 3 /\ Rank["chunk"] = 4
  /\ Rank["sync"] = 5 /\ Rank["close"] = 6 /\ Rank["mirror"] = 7 /\ Rank["rename"] = 8
  /\ Rank["closeSource"] = 9 /\ Rank["closeTemp"] = 10 /\ Rank["remove"] = 11
  /\ Rank["end"] = 12
  BY DEF CopySteps, Rank

LEMMA RankIsNatural ==
  \A s \in CopySteps \cup {"end"} : Rank[s] \in Nat
  BY StepFacts

LEMMA EndIsNoOperation == "end" \notin Operations
  BY BoundedIOAssumption DEF Operations, CopySteps

\* Two callers are never at the same operation.
LEMMA OpFacts ==
  ASSUME step \in CopySteps \cup {"end"}, NEW c \in Callers
  PROVE  /\ Op(c) \in Operations \cup {"end"}
         /\ c = "copy" => Op(c) = step
         /\ c # "copy" => Op(c) = c /\ c \in Probes /\ c \notin CopySteps \cup {"end"}
         /\ \A d \in Callers \ {c} : Op(d) # Op(c)
  <1>1. Probes \cap (CopySteps \cup {"copy", "end"}) = {}
    BY BoundedIOAssumption
  <1>2. /\ c = "copy" => Op(c) = step
        /\ c # "copy" => Op(c) = c /\ c \in Probes /\ c \notin CopySteps \cup {"end"}
    BY <1>1 DEF Op, Callers
  <1>3. Op(c) \in Operations \cup {"end"}
    BY <1>2 DEF Operations
  <1>4. ASSUME NEW d \in Callers \ {c}
        PROVE  Op(d) # Op(c)
    BY <1>1, <1>4 DEF Op, Callers
  <1> QED
    BY <1>2, <1>3, <1>4

\* Nobody waits for the operation of a step the copy is not at.
LEMMA AwaitedFacts ==
  ASSUME IOTypeOK, NEW o \in Operations
  PROVE  AwaitedBy(o) # {} <=> \E c \in Callers : Op(c) = o /\ call[c] = "waiting"
  BY DEF AwaitedBy

\* The goroutine of operation o comes to w, and that of no other operation changes.
Becomes(o, w) ==
  /\ worker' \in [Operations -> {"none", "busy"} \cup Results]
  /\ worker'[o] = w
  /\ \A q \in Operations \ {o} : worker'[q] = worker[q]

\* Caller c comes to v, and no other caller does anything.
ComesTo(c, v) ==
  /\ call' \in [Callers -> {"idle", "inline"} \cup Results \cup Awaiting \cup GivenUp]
  /\ call'[c] = v
  /\ \A d \in Callers \ {c} : call'[d] = call[d]

LEMMA BecomesFacts ==
  ASSUME IOTypeOK, NEW o \in Operations, NEW w \in {"none", "busy"} \cup Results,
         worker' = [worker EXCEPT ![o] = w]
  PROVE  Becomes(o, w)
  BY DEF IOTypeOK, Becomes

LEMMA ComesToFacts ==
  ASSUME IOTypeOK, NEW c \in Callers,
         NEW v \in {"idle", "inline"} \cup Results \cup Awaiting \cup GivenUp,
         call' = [call EXCEPT ![c] = v]
  PROVE  ComesTo(c, v)
  BY DEF IOTypeOK, ComesTo

\* What each step of a call does to its caller and its goroutine.
LEMMA BeginEffect ==
  ASSUME IOInv, NEW c \in Callers, BeginCall(c)
  PROVE  /\ Op(c) \in Operations /\ call[c] = "idle"
         /\ \E v \in {"refused", "inline", "queued", "waiting"} :
              /\ ComesTo(c, v)
              /\ v = "queued" => Limited(Op(c))
              /\ v = "waiting" => ~Limited(Op(c)) /\ Becomes(Op(c), "busy")
              /\ v # "waiting" => worker' = worker
         /\ UNCHANGED <<mount, context, inUse, step, tempFile, copied, file>>
  <1>1. Op(c) \in Operations /\ call[c] = "idle"
    BY OpFacts DEF BeginCall, IOInv, IOTypeOK
  <1> DEFINE v == IF context = "done" THEN "refused"
                  ELSE IF context = "passed" THEN "inline"
                  ELSE IF Limited(Op(c)) THEN "queued" ELSE "waiting"
  <1>2. /\ v \in {"refused", "inline", "queued", "waiting"}
        /\ v \in {"idle", "inline"} \cup Results \cup Awaiting \cup GivenUp
        /\ v = "queued" => Limited(Op(c))
        /\ v = "waiting" => ~Limited(Op(c))
    BY DEF Results, Awaiting, GivenUp
  <1>3. call' = [call EXCEPT ![c] = v]
    BY DEF BeginCall
  <1> HIDE DEF v
  <1>4. ComesTo(c, v)
    BY <1>2, <1>3, ComesToFacts DEF IOInv
  <1>5. worker' = IF v = "waiting" THEN [worker EXCEPT ![Op(c)] = "busy"] ELSE worker
    BY <1>4 DEF BeginCall, ComesTo
  <1>6. v = "waiting" => Becomes(Op(c), "busy")
    BY <1>1, <1>5, BecomesFacts DEF IOInv
  <1>7. UNCHANGED <<mount, context, inUse, step, tempFile, copied, file>>
    BY DEF BeginCall, copyVars
  <1> QED
    BY <1>1, <1>2, <1>4, <1>5, <1>6, <1>7

LEMMA AcquireEffect ==
  ASSUME IOInv, NEW c \in Callers, Acquire(c)
  PROVE  /\ Op(c) \in Operations /\ call[c] = "queued" /\ inUse < Slots /\ inUse' = inUse + 1
         /\ Limited(Op(c)) /\ worker[Op(c)] = "none"
         /\ ComesTo(c, "waiting") /\ Becomes(Op(c), "busy")
         /\ UNCHANGED <<mount, context, step, tempFile, copied, file>>
  <1>1. call[c] = "queued" /\ inUse < Slots /\ inUse' = inUse + 1
    BY DEF Acquire
  <1>2. Op(c) \in Operations
    BY <1>1, OpFacts DEF IOInv, IOTypeOK, CallersKnow, Knows
  <1>3. Limited(Op(c)) /\ worker[Op(c)] = "none"
    BY <1>1 DEF IOInv, CallersKnow, Knows
  <1>4. ComesTo(c, "waiting") /\ Becomes(Op(c), "busy")
    BY <1>2, BecomesFacts, ComesToFacts DEF IOInv, Acquire, Awaiting
  <1>5. UNCHANGED <<mount, context, step, tempFile, copied, file>>
    BY DEF Acquire, copyVars
  <1> QED
    BY <1>1, <1>2, <1>3, <1>4, <1>5

LEMMA ReturnEffect ==
  ASSUME IOInv, NEW c \in Callers, CallReturns(c)
  PROVE  /\ Op(c) \in Operations
         /\ \/ /\ call[c] = "waiting" /\ worker[Op(c)] \in Results
               /\ ComesTo(c, worker[Op(c)]) /\ Becomes(Op(c), "none")
            \/ call[c] = "queued" /\ ComesTo(c, "refused") /\ worker' = worker
            \/ /\ call[c] = "waiting" /\ ComesTo(c, "abandoned")
               /\ Becomes(Op(c), IF worker[Op(c)] = "busy" THEN "busy" ELSE "none")
         /\ UNCHANGED <<mount, context, inUse, step, tempFile, copied, file>>
  <1>1. call[c] \in {"waiting", "queued"}
    BY DEF CallReturns, Receive, GiveUp, MayGiveUp, Awaiting
  <1>2. Op(c) \in Operations
    BY <1>1, OpFacts DEF IOInv, IOTypeOK, CallersKnow, Knows
  <1>3. UNCHANGED <<mount, context, inUse, step, tempFile, copied, file>>
    BY DEF CallReturns, Receive, GiveUp, copyVars
  <1>4. CASE Receive(c)
    <2>1. call[c] = "waiting" /\ worker[Op(c)] \in Results
      BY <1>4 DEF Receive
    <2>2. ComesTo(c, worker[Op(c)]) /\ Becomes(Op(c), "none")
      BY <1>2, <1>4, <2>1, BecomesFacts, ComesToFacts DEF IOInv, Receive
    <2> QED
      BY <1>2, <1>3, <2>1, <2>2
  <1>5. CASE GiveUp(c)
    <2>1. CASE call[c] = "queued"
      <3>1. worker[Op(c)] = "none"
        BY <1>2, <2>1 DEF IOInv, CallersKnow, Knows
      <3>2. ComesTo(c, "refused")
        BY <1>5, <2>1, ComesToFacts DEF IOInv, GiveUp, GivenUp
      <3>3. worker' = [worker EXCEPT ![Op(c)] = "none"]
        BY <1>5, <3>1 DEF GiveUp
      <3>4. worker' = worker
        BY <1>2, <3>1, <3>3 DEF IOInv, IOTypeOK
      <3> QED
        BY <1>2, <1>3, <2>1, <3>2, <3>4
    <2>2. CASE call[c] = "waiting"
      <3>1. ComesTo(c, "abandoned")
        BY <1>5, <2>2, ComesToFacts DEF IOInv, GiveUp, GivenUp
      <3>2. Becomes(Op(c), IF worker[Op(c)] = "busy" THEN "busy" ELSE "none")
        BY <1>2, <1>5, BecomesFacts DEF IOInv, GiveUp
      <3> QED
        BY <1>2, <1>3, <2>2, <3>1, <3>2
    <2> QED
      BY <1>1, <2>1, <2>2
  <1> QED
    BY <1>4, <1>5 DEF CallReturns

\* What an operation does to the file, at any time and with either result.
LEMMA OperateEffect ==
  ASSUME IOTypeOK, NEW o \in Operations, NEW r \in Results, Operate(o, r),
         o = "chunk" => file.written < Chunks
  PROVE  /\ file' \in [temp : BOOLEAN, final : BOOLEAN, written : 0 .. Chunks,
                       synced : 0 .. Chunks]
         /\ o # "chunk" => file'.written = file.written
         /\ file.written <= file'.written
         /\ o # "sync" => file'.synced = file.synced
         /\ o = "sync" => file'.synced \in {file.synced, file.written}
         /\ o = "sync" /\ r = "ok" => file'.synced = file.written
         /\ o # "rename" => file'.final = file.final
         /\ o = "rename" /\ r = "ok" => file'.final
         /\ file.final => file'.final
  <1>1. /\ file \in [temp : BOOLEAN, final : BOOLEAN, written : 0 .. Chunks,
                     synced : 0 .. Chunks]
        /\ Chunks \in Nat
    BY BoundedIOAssumption DEF IOTypeOK
  <1>2. r = "error" \/ r = "ok"
    BY DEF Results
  <1>3. CASE r = "error"
    BY <1>1, <1>3 DEF Operate
  <1>4. CASE r = "ok"
    <2>1. CASE o = "create"
      <3>1. file' = [file EXCEPT !.temp = TRUE]
        BY <1>4, <2>1 DEF Operate
      <3>2. file' \in [temp : BOOLEAN, final : BOOLEAN, written : 0 .. Chunks,
                       synced : 0 .. Chunks]
        BY <1>1, <3>1
      <3>3. file'.written = file.written /\ file'.synced = file.synced /\ file'.final = file.final
        BY <1>1, <3>1
      <3> QED
        BY <1>1, <2>1, <3>2, <3>3
    <2>2. CASE o = "chunk"
      BY <1>1, <1>4, <2>2 DEF Operate
    <2>3. CASE o = "sync"
      BY <1>1, <1>4, <2>3 DEF Operate
    <2>4. CASE o = "rename"
      <3>1. file' = [file EXCEPT !.temp = FALSE, !.final = TRUE]
        BY <1>4, <2>4 DEF Operate
      <3>2. file' \in [temp : BOOLEAN, final : BOOLEAN, written : 0 .. Chunks,
                       synced : 0 .. Chunks]
        BY <1>1, <3>1
      <3>3. file'.written = file.written /\ file'.synced = file.synced /\ file'.final
        BY <1>1, <3>1
      <3> QED
        BY <1>1, <2>4, <3>2, <3>3
    <2>5. CASE o = "remove"
      <3>1. file' = [file EXCEPT !.temp = FALSE]
        BY <1>4, <2>5 DEF Operate
      <3>2. file' \in [temp : BOOLEAN, final : BOOLEAN, written : 0 .. Chunks,
                       synced : 0 .. Chunks]
        BY <1>1, <3>1
      <3>3. file'.written = file.written /\ file'.synced = file.synced /\ file'.final = file.final
        BY <1>1, <3>1
      <3> QED
        BY <1>1, <2>5, <3>2, <3>3
    <2>6. CASE o \notin {"create", "chunk", "sync", "rename", "remove"}
      <3>1. file' = file
        BY <1>4, <2>6 DEF Operate
      <3> QED
        BY <1>1, <2>6, <3>1
    <2> QED
      BY <2>1, <2>2, <2>3, <2>4, <2>5, <2>6
  <1> QED
    BY <1>2, <1>3, <1>4

\* Somebody waits for the operation o.
Awaited(o) == \E c \in Callers : Op(c) = o /\ call[c] = "waiting"

LEMMA WorkerEffect ==
  ASSUME IOInv, NEW o \in Operations, WorkerEnds(o)
  PROVE  /\ worker[o] = "busy"
         /\ \E r \in Results : Operate(o, r) /\ Becomes(o, IF Awaited(o) THEN r ELSE "none")
         /\ inUse' = IF Limited(o) THEN inUse - 1 ELSE inUse
         /\ UNCHANGED <<mount, context, call, step, tempFile, copied>>
  <1>1. PICK r \in Results :
          /\ Operate(o, r)
          /\ worker' = [worker EXCEPT ![o] = IF AwaitedBy(o) = {} THEN "none" ELSE r]
    BY DEF WorkerEnds
  <1>2. AwaitedBy(o) = {} <=> ~Awaited(o)
    BY DEF AwaitedBy, Awaited
  <1>3. worker' = [worker EXCEPT ![o] = IF Awaited(o) THEN r ELSE "none"]
    BY <1>1, <1>2
  <1>4. Becomes(o, IF Awaited(o) THEN r ELSE "none")
    BY <1>3, BecomesFacts DEF IOInv
  <1>5. /\ worker[o] = "busy" /\ inUse' = IF Limited(o) THEN inUse - 1 ELSE inUse
        /\ UNCHANGED <<mount, context, call, step, tempFile, copied>>
    BY DEF WorkerEnds, copyVars
  <1> QED
    BY <1>1, <1>4, <1>5

LEMMA InlineEffect ==
  ASSUME IOInv, NEW c \in Callers, InlineEnds(c)
  PROVE  /\ call[c] = "inline" /\ Op(c) \in Operations /\ worker[Op(c)] = "none"
         /\ \E r \in Results : Operate(Op(c), r) /\ ComesTo(c, r)
         /\ UNCHANGED <<mount, context, inUse, worker, step, tempFile, copied>>
  <1>1. call[c] = "inline" /\ UNCHANGED <<mount, context, inUse, worker, step, tempFile, copied>>
    BY DEF InlineEnds, copyVars
  <1>2. Op(c) \in Operations
    BY <1>1, OpFacts DEF IOInv, IOTypeOK, CallersKnow, Knows
  <1>3. worker[Op(c)] = "none"
    BY <1>1, <1>2, OpFacts DEF IOInv, CallersKnow, Knows
  <1>4. PICK r \in Results : Operate(Op(c), r) /\ call' = [call EXCEPT ![c] = r]
    BY DEF InlineEnds
  <1>5. ComesTo(c, r)
    BY <1>4, ComesToFacts DEF IOInv
  <1> QED
    BY <1>1, <1>2, <1>3, <1>4, <1>5

\* The copy goes on to a later step, or to another chunk.
LEMMA CopyEffect ==
  ASSUME IOInv, CopyFile
  PROVE  /\ call["copy"] \in Results \cup GivenUp /\ step \in CopySteps
         /\ ComesTo("copy", "idle")
         /\ step' \in CopySteps \cup {"end"} /\ tempFile' \in BOOLEAN
         /\ copied' \in {"not yet", "ok", "failed"}
         /\ \/ Rank[step'] > Rank[step]
            \/ step = "chunk" /\ step' = "chunk" /\ call["copy"] = "ok"
         /\ step' \in {"create", "open", "chunk", "sync", "close", "rename"} =>
              call["copy"] = "ok" \/ step = "mirror"
         /\ step' \in {"prepare", "create", "open"} => step \in {"prepare", "create", "open"}
         /\ step' = "chunk" => step = "open" \/ (step = "chunk" /\ file.written < Chunks)
         /\ step' = "sync" => step = "chunk" /\ ~(file.written < Chunks)
         /\ step' = "close" => step = "sync" /\ call["copy"] = "ok"
         /\ step' = "mirror" => step = "close"
         /\ step' = "rename" => step = "mirror"
         /\ step' \notin Cleanups \cup {"end"} => step \notin Cleanups /\ copied' = copied
         /\ copied' = "ok" => copied = "ok" \/ (step = "rename" /\ call["copy"] = "ok")
         /\ UNCHANGED <<mount, context, inUse, worker, file>>
  <1>1. /\ call["copy"] \in Results \cup GivenUp /\ step \in CopySteps
        /\ UNCHANGED <<mount, context, inUse, worker, file>>
    BY DEF CopyFile, CopyGoesOn, CleanUp, Cleanups, CopySteps
  <1>2. ComesTo("copy", "idle")
    BY ComesToFacts DEF IOInv, CopyFile, Callers
  <1>3. tempFile' \in BOOLEAN /\ copied' \in {"not yet", "ok", "failed"}
    <2>1. CASE CleanUp
      BY <2>1 DEF CleanUp, IOInv, IOTypeOK
    <2>2. CASE CopyGoesOn
      <3>1. tempFile' \in {~Failed, FALSE, ~LeavesHandles, tempFile}
        BY <2>2 DEF CopyGoesOn
      <3>2. copied' \in {"failed", "ok", copied}
        BY <2>2 DEF CopyGoesOn
      <3>3. tempFile \in BOOLEAN /\ copied \in {"not yet", "ok", "failed"}
        BY DEF IOInv, IOTypeOK
      <3>4. (~Failed) \in BOOLEAN /\ (~LeavesHandles) \in BOOLEAN
        OBVIOUS
      <3> QED
        BY <3>1, <3>2, <3>3, <3>4
    <2> QED
      BY <2>1, <2>2 DEF CopyFile
  <1>4. CASE CleanUp
    <2>1. step \in {"closeSource", "closeTemp", "remove"}
      BY <1>4 DEF CleanUp, Cleanups
    <2>2. /\ step = "closeSource" => step' \in {"closeTemp", "remove", "end"}
          /\ step = "closeTemp" => step' \in {"remove", "end"}
          /\ step = "remove" => step' = "end"
          /\ copied' = copied
      BY <1>4 DEF CleanUp
    <2>3. Rank[step'] > Rank[step]
      BY <2>1, <2>2, StepFacts
    <2>4. step' \in {"closeTemp", "remove", "end"} /\ step' \in CopySteps \cup {"end"}
      BY <2>1, <2>2, StepFacts
    <2>5. step' \in Cleanups \cup {"end"}
      BY <2>4 DEF Cleanups
    <2>6. step' \notin {"prepare", "create", "open", "chunk", "sync", "close", "mirror",
                         "rename"}
      BY <2>4
    <2>7. copied' = copied
      BY <2>2
    <2> QED
      BY <1>1, <1>2, <1>3, <2>3, <2>4, <2>5, <2>6, <2>7
  <1>5. CASE CopyGoesOn
    <2>1. step \in {"prepare", "create", "open", "chunk", "sync", "close", "mirror", "rename"}
      BY <1>5 DEF CopyGoesOn, CopySteps, Cleanups
    <2>2. CASE Failed
      <3>1. /\ step' \in {"end", "closeTemp", "remove", "closeSource"}
            /\ copied' = "failed"
        BY <1>5, <2>2 DEF CopyGoesOn, Deferred
      <3> QED
        BY <1>1, <1>2, <1>3, <2>1, <3>1, StepFacts DEF Cleanups
    <2>3. CASE ~Failed
      <3>1. call["copy"] = "ok" \/ step = "mirror"
        BY <2>3 DEF Failed
      <3>2. step' = NextStep /\ copied' = IF step = "rename" THEN "ok" ELSE copied
        BY <1>5, <2>3 DEF CopyGoesOn
      <3>3. /\ step = "prepare" => step' = "create"
            /\ step = "create" => step' = "open"
            /\ step = "open" => step' = "chunk"
            /\ step = "chunk" => \/ step' = "chunk" /\ file.written < Chunks
                                 \/ step' = "sync" /\ ~(file.written < Chunks)
            /\ step = "sync" => step' = "close"
            /\ step = "close" => step' = "mirror"
            /\ step = "mirror" => step' = "rename"
            /\ step = "rename" => step' = "closeSource"
        BY <3>2 DEF NextStep, More
      <3>4. \/ Rank[step'] > Rank[step]
            \/ step = "chunk" /\ step' = "chunk" /\ call["copy"] = "ok"
        BY <2>1, <3>1, <3>3, StepFacts
      <3>5. step' \in {"create", "open", "chunk", "sync", "close", "mirror", "rename",
                       "closeSource"}
        BY <2>1, <3>3
      <3>6. step' \in CopySteps \cup {"end"} /\ step \notin Cleanups
        BY <2>1, <3>5 DEF CopySteps, Cleanups
      <3>7. /\ step' = "rename" => step = "mirror"
            /\ step' = "mirror" => step = "close"
            /\ step' = "close" => step = "sync" /\ call["copy"] = "ok"
            /\ step' = "sync" => step = "chunk" /\ ~(file.written < Chunks)
            /\ step' = "chunk" => step = "open" \/ (step = "chunk" /\ file.written < Chunks)
            /\ step' \in {"prepare", "create", "open"} =>
                 step \in {"prepare", "create", "open"}
        <4>1. step \in {"prepare", "create", "open"} =>
                step' \in {"create", "open", "chunk"} /\ (step' = "chunk" => step = "open")
          BY <3>3
        <4>2. CASE step \in {"prepare", "create", "open"}
          BY <4>1, <4>2
        <4>3. CASE step = "chunk"
          BY <3>1, <3>3, <4>3
        <4>4. CASE step = "sync"
          BY <3>1, <3>3, <4>4
        <4>5. CASE step \in {"close", "mirror", "rename"}
          BY <3>3, <4>5
        <4> QED
          BY <2>1, <4>2, <4>3, <4>4, <4>5
      <3>8. /\ step' \notin Cleanups \cup {"end"} => copied' = copied
            /\ copied' = "ok" => copied = "ok" \/ (step = "rename" /\ call["copy"] = "ok")
        <4>1. step = "rename" => step' \in Cleanups /\ call["copy"] = "ok"
          BY <3>1, <3>3 DEF Cleanups
        <4> QED
          BY <3>2, <4>1
      <3> QED
        BY <1>1, <1>2, <1>3, <3>1, <3>4, <3>6, <3>7, <3>8
    <2> QED
      BY <2>2, <2>3
  <1> QED
    BY <1>4, <1>5 DEF CopyFile

-----------------------------------------------------------------------------
\* A goroutine that is in the kernel has its slot.
LEMMA BusyHasSlot ==
  ASSUME IOInv, NEW o \in Operations, Limited(o), worker[o] = "busy"
  PROVE  inUse \in Nat /\ inUse >= 1
  <1>1. IsFiniteSet(Busy) /\ inUse = Cardinality(Busy)
    BY DEF IOInv, SlotsCounted
  <1>2. o \in Busy
    BY DEF Busy
  <1>3. Cardinality(Busy) \in Nat /\ Cardinality(Busy) # 0
    BY <1>1, <1>2, FS_CardinalityType, FS_EmptySet
  <1> QED
    BY <1>1, <1>3

\* The copy of a chunk, be it late, finds the file incomplete.
LEMMA ChunkHasRoom ==
  ASSUME IOInv
  PROVE  /\ worker["chunk"] = "busy" => file.written < Chunks
         /\ \A c \in Callers :
              call[c] = "inline" /\ Op(c) = "chunk" => step = "chunk" /\ file.written < Chunks
  <1>1. worker["chunk"] = "busy" => file.written < Chunks
    BY DEF IOInv, WrittenInOrder
  <1>2. ASSUME NEW c \in Callers, call[c] = "inline", Op(c) = "chunk"
        PROVE  step = "chunk" /\ file.written < Chunks
    <2>1. c = "copy" /\ step = "chunk"
      BY <1>2, OpFacts DEF IOInv, IOTypeOK, CopySteps
    <2> QED
      BY <1>2, <2>1 DEF IOInv, WrittenInOrder
  <1> QED
    BY <1>1, <1>2

LEMMA TypeStep ==
  ASSUME IOInv, [IONext]_ioVars
  PROVE  IOTypeOK'
  <1> USE DEF Results, Awaiting, GivenUp
  <1>0. IOTypeOK
    BY DEF IOInv
  <1>1. ASSUME NEW c \in Callers, BeginCall(c)
        PROVE  IOTypeOK'
    <2>1. call' \in [Callers -> {"idle", "inline"} \cup Results \cup Awaiting \cup GivenUp]
      BY <1>1, BeginEffect DEF ComesTo
    <2>2. worker' \in [Operations -> {"none", "busy"} \cup Results]
      BY <1>0, <1>1, BeginEffect DEF IOTypeOK, Becomes
    <2>3. UNCHANGED <<mount, context, inUse, step, tempFile, copied, file>>
      BY <1>1, BeginEffect
    <2> QED
      BY <1>0, <2>1, <2>2, <2>3 DEF IOTypeOK
  <1>2. ASSUME NEW c \in Callers, Acquire(c)
        PROVE  IOTypeOK'
    <2>1. inUse' \in 0 .. Slots
      <3>1. Slots \in Nat /\ inUse \in 0 .. Slots
        BY <1>0, BoundedIOAssumption DEF IOTypeOK
      <3>2. inUse < Slots /\ inUse' = inUse + 1
        BY <1>2, AcquireEffect
      <3> QED
        BY <3>1, <3>2
    <2> QED
      BY <1>0, <1>2, <2>1, AcquireEffect DEF IOTypeOK, ComesTo, Becomes
  <1>3. ASSUME NEW c \in Callers, CallReturns(c)
        PROVE  IOTypeOK'
    BY <1>0, <1>3, ReturnEffect DEF IOTypeOK, ComesTo, Becomes
  <1>4. ASSUME NEW c \in Callers, InlineEnds(c)
        PROVE  IOTypeOK'
    <2>1. PICK r \in Results : Operate(Op(c), r) /\ ComesTo(c, r)
      BY <1>4, InlineEffect
    <2>2. Op(c) \in Operations /\ call[c] = "inline"
      BY <1>4, InlineEffect
    <2>3. file' \in [temp : BOOLEAN, final : BOOLEAN, written : 0 .. Chunks,
                     synced : 0 .. Chunks]
      BY <1>0, <2>1, <2>2, ChunkHasRoom, OperateEffect
    <2> QED
      BY <1>0, <1>4, <2>1, <2>3, InlineEffect DEF IOTypeOK, ComesTo
  <1>5. ASSUME NEW o \in Operations, WorkerEnds(o)
        PROVE  IOTypeOK'
    <2>1. PICK r \in Results : Operate(o, r) /\ Becomes(o, IF Awaited(o) THEN r ELSE "none")
      BY <1>5, WorkerEffect
    <2>2. file' \in [temp : BOOLEAN, final : BOOLEAN, written : 0 .. Chunks,
                     synced : 0 .. Chunks]
      BY <1>0, <1>5, <2>1, WorkerEffect, ChunkHasRoom, OperateEffect
    <2>3. inUse' \in 0 .. Slots
      <3>1. Slots \in Nat /\ inUse \in 0 .. Slots
        BY <1>0, BoundedIOAssumption DEF IOTypeOK
      <3>2. inUse' = inUse \/ (inUse' = inUse - 1 /\ inUse >= 1)
        BY <1>5, WorkerEffect, BusyHasSlot
      <3> QED
        BY <3>1, <3>2
    <2> QED
      BY <1>0, <1>5, <2>1, <2>2, <2>3, WorkerEffect DEF IOTypeOK, Becomes
  <1>6. ASSUME CopyFile
        PROVE  IOTypeOK'
    BY <1>0, <1>6, CopyEffect DEF IOTypeOK, ComesTo
  <1>7. ASSUME MountChanges \/ ContextEnds \/ UNCHANGED ioVars
        PROVE  IOTypeOK'
    BY <1>0, <1>7 DEF IOTypeOK, MountChanges, ContextEnds, copyVars, ioVars
  <1> QED
    BY <1>1, <1>2, <1>3, <1>4, <1>5, <1>6, <1>7 DEF IONext

\* Steps that leave the copy where it is leave every caller at its operation.
LEMMA SameOperations ==
  ASSUME step' = step
  PROVE  \A c : Op(c)' = Op(c)
  BY DEF Op

LEMMA CallersStep ==
  ASSUME IOInv, [IONext]_ioVars
  PROVE  CallersKnow'
  <1> SUFFICES ASSUME NEW d \in Callers
               PROVE  Knows(d)'
    BY DEF CallersKnow
  <1> USE DEF Results, Awaiting, GivenUp
  <1>0. /\ IOTypeOK /\ Knows(d) /\ Op(d) \in Operations \cup {"end"}
        /\ \A c \in Callers \ {d} : Op(c) # Op(d)
    BY OpFacts DEF IOInv, IOTypeOK, CallersKnow
  <1>1. ASSUME NEW c \in Callers, BeginCall(c)
        PROVE  Knows(d)'
    <2>1. Op(d)' = Op(d) /\ "end" \notin {Op(c)}
      BY <1>1, SameOperations, BeginEffect DEF BeginCall
    <2>2. CASE d = c
      BY <1>0, <1>1, <2>1, <2>2, BeginEffect DEF Knows, ComesTo, Becomes
    <2>3. CASE d # c
      BY <1>0, <1>1, <2>1, <2>3, BeginEffect DEF Knows, ComesTo, Becomes
    <2> QED
      BY <2>2, <2>3
  <1>2. ASSUME NEW c \in Callers, Acquire(c)
        PROVE  Knows(d)'
    <2>1. Op(d)' = Op(d)
      BY <1>2, SameOperations, AcquireEffect
    <2>2. CASE d = c
      BY <1>0, <1>2, <2>1, <2>2, AcquireEffect DEF Knows, ComesTo, Becomes
    <2>3. CASE d # c
      BY <1>0, <1>2, <2>1, <2>3, AcquireEffect DEF Knows, ComesTo, Becomes
    <2> QED
      BY <2>2, <2>3
  <1>3. ASSUME NEW c \in Callers, CallReturns(c)
        PROVE  Knows(d)'
    <2>1. Op(d)' = Op(d)
      BY <1>3, SameOperations, ReturnEffect
    <2>2. CASE d = c
      BY <1>0, <1>3, <2>1, <2>2, ReturnEffect DEF Knows, ComesTo, Becomes
    <2>3. CASE d # c
      BY <1>0, <1>3, <2>1, <2>3, ReturnEffect DEF Knows, ComesTo, Becomes
    <2> QED
      BY <2>2, <2>3
  <1>4. ASSUME NEW c \in Callers, InlineEnds(c)
        PROVE  Knows(d)'
    <2>1. Op(d)' = Op(d) /\ worker' = worker
      BY <1>4, SameOperations, InlineEffect
    <2>2. CASE d = c
      BY <1>0, <1>4, <2>1, <2>2, InlineEffect DEF Knows, ComesTo
    <2>3. CASE d # c
      BY <1>0, <1>4, <2>1, <2>3, InlineEffect DEF Knows, ComesTo
    <2> QED
      BY <2>2, <2>3
  <1>5. ASSUME NEW o \in Operations, WorkerEnds(o)
        PROVE  Knows(d)'
    <2>1. PICK r \in Results : Becomes(o, IF Awaited(o) THEN r ELSE "none")
      BY <1>5, WorkerEffect
    <2>2. Op(d)' = Op(d) /\ call' = call /\ worker[o] = "busy"
      BY <1>5, SameOperations, WorkerEffect
    <2>3. CASE Op(d) # o
      BY <1>0, <2>1, <2>2, <2>3 DEF Knows, Becomes
    <2>4. CASE Op(d) = o
      <3>1. Awaited(o) <=> call[d] = "waiting"
        BY <1>0, <2>4 DEF Awaited
      <3>2. call[d] \in {"waiting", "abandoned"}
        BY <1>0, <2>2, <2>4, EndIsNoOperation DEF Knows
      <3> QED
        BY <1>0, <2>1, <2>2, <2>4, <3>1, <3>2 DEF Knows, Becomes
    <2> QED
      BY <2>3, <2>4
  <1>6. ASSUME CopyFile
        PROVE  Knows(d)'
    <2>1. CASE d # "copy"
      BY <1>0, <1>6, <2>1, CopyEffect DEF Knows, ComesTo, Op
    <2>2. CASE d = "copy"
      <3>1. Op(d)' = step' /\ Op(d) = step /\ call'[d] = "idle"
        BY <1>6, <2>2, CopyEffect DEF Op, ComesTo
      <3>2. CASE step' = step
        <4>1. step = "chunk" /\ call["copy"] = "ok"
          <5>1. Rank[step] \in Nat
            BY <1>6, CopyEffect, RankIsNatural
          <5>2. \/ Rank[step'] > Rank[step]
                \/ step = "chunk" /\ step' = "chunk" /\ call["copy"] = "ok"
            BY <1>6, CopyEffect
          <5>3. ~(Rank[step'] > Rank[step])
            BY <3>2, <5>1
          <5> QED
            BY <5>2, <5>3
        <4> QED
          BY <1>0, <1>6, <2>2, <3>1, <3>2, <4>1, CopyEffect DEF Knows
      <3>3. CASE step' # step
        <4>1. step' = "end" \/ step' \in CopySteps
          BY <1>6, CopyEffect
        <4>2. step' \in CopySteps => worker[step'] = "none"
          BY <1>0, <1>6, <3>3, CopyEffect DEF IOInv, LeftBehind
        <4> QED
          BY <1>6, <3>1, <4>1, <4>2, CopyEffect DEF Knows
      <3> QED
        BY <3>2, <3>3
    <2> QED
      BY <2>1, <2>2
  <1>7. ASSUME MountChanges \/ ContextEnds \/ UNCHANGED ioVars
        PROVE  Knows(d)'
    BY <1>0, <1>7 DEF Knows, Op, MountChanges, ContextEnds, copyVars, ioVars
  <1> QED
    BY <1>1, <1>2, <1>3, <1>4, <1>5, <1>6, <1>7 DEF IONext

LEMMA LeftBehindStep ==
  ASSUME IOInv, [IONext]_ioVars
  PROVE  LeftBehind'
  <1> SUFFICES ASSUME NEW q \in CopySteps, q # step'
               PROVE  /\ worker'[q] \in {"none", "busy"}
                      /\ Rank[q] > Rank[step'] => worker'[q] = "none"
    BY DEF LeftBehind
  <1> DEFINE Goal == /\ worker'[q] \in {"none", "busy"}
                     /\ Rank[q] > Rank[step'] => worker'[q] = "none"
  <1>0. /\ IOTypeOK /\ q \in Operations /\ step \in CopySteps \cup {"end"}
        /\ q # step => /\ worker[q] \in {"none", "busy"}
                       /\ Rank[q] > Rank[step] => worker[q] = "none"
    BY DEF IOInv, IOTypeOK, LeftBehind, Operations
  <1>a. ASSUME NEW c \in Callers, step' = step
        PROVE  Op(c) # q
    BY <1>0, <1>a, OpFacts
  <1>1. ASSUME NEW c \in Callers, BeginCall(c)
        PROVE  Goal
    BY <1>0, <1>1, <1>a, BeginEffect DEF Becomes
  <1>2. ASSUME NEW c \in Callers, Acquire(c)
        PROVE  Goal
    BY <1>0, <1>2, <1>a, AcquireEffect DEF Becomes
  <1>3. ASSUME NEW c \in Callers, CallReturns(c)
        PROVE  Goal
    BY <1>0, <1>3, <1>a, ReturnEffect DEF Becomes
  <1>4. ASSUME NEW c \in Callers, InlineEnds(c)
        PROVE  Goal
    BY <1>0, <1>4, InlineEffect
  <1>5. ASSUME NEW o \in Operations, WorkerEnds(o)
        PROVE  Goal
    <2>1. PICK r \in Results : Becomes(o, IF Awaited(o) THEN r ELSE "none")
      BY <1>5, WorkerEffect
    <2>2. step' = step
      BY <1>5, WorkerEffect
    <2>3. o = q => ~Awaited(o)
      BY <1>a, <2>2 DEF Awaited
    <2> QED
      BY <1>0, <2>1, <2>2, <2>3 DEF Becomes
  <1>6. ASSUME CopyFile
        PROVE  Goal
    <2>1. /\ worker' = worker /\ step \in CopySteps /\ call["copy"] \in Results \cup GivenUp
          /\ Rank[step'] > Rank[step] \/ step' = step
          /\ Rank[step] \in Nat /\ Rank[step'] \in Nat /\ Rank[q] \in Nat
      BY <1>6, CopyEffect, RankIsNatural
    <2>2. CASE q = step
      <3>1. worker[q] \in {"none", "busy"}
        BY <2>1, <2>2, StepFacts DEF IOInv, CallersKnow, Knows, Callers, Op, Results, GivenUp
      <3> QED
        BY <2>1, <2>2, <3>1
    <2>3. CASE q # step
      BY <1>0, <2>1, <2>3
    <2> QED
      BY <2>2, <2>3
  <1>7. ASSUME MountChanges \/ ContextEnds \/ UNCHANGED ioVars
        PROVE  Goal
    BY <1>0, <1>7 DEF MountChanges, ContextEnds, copyVars, ioVars
  <1> QED
    BY <1>1, <1>2, <1>3, <1>4, <1>5, <1>6, <1>7 DEF IONext

\* The goroutines in the kernel, after one has come or gone.
LEMMA BusyChanges ==
  ASSUME IOInv, NEW o \in Operations, NEW w, Becomes(o, w)
  PROVE  Busy' = IF Limited(o) /\ w = "busy" THEN Busy \cup {o} ELSE Busy \ {o}
  <1>1. ASSUME NEW q \in Operations
        PROVE  worker'[q] = IF q = o THEN w ELSE worker[q]
    BY DEF Becomes
  <1> QED
    BY <1>1 DEF Busy

LEMMA SlotsStep ==
  ASSUME IOInv, [IONext]_ioVars
  PROVE  SlotsCounted'
  <1>0. IsFiniteSet(Busy) /\ inUse = Cardinality(Busy)
    BY DEF IOInv, SlotsCounted
  <1>a. ASSUME worker' = worker, inUse' = inUse
        PROVE  SlotsCounted'
    BY <1>0, <1>a DEF SlotsCounted, Busy
  <1>b. ASSUME Busy' = Busy, inUse' = inUse
        PROVE  SlotsCounted'
    BY <1>0, <1>b DEF SlotsCounted
  <1>1. ASSUME NEW c \in Callers, BeginCall(c)
        PROVE  SlotsCounted'
    <2>1. inUse' = inUse
      BY <1>1, BeginEffect
    <2>2. CASE worker' = worker
      BY <1>a, <2>1, <2>2
    <2>3. CASE ~Limited(Op(c)) /\ Becomes(Op(c), "busy")
      <3>1. Op(c) \in Operations
        BY <1>1, BeginEffect
      <3>2. Op(c) \notin Busy
        BY <2>3 DEF Busy
      <3>3. Busy' = Busy
        BY <2>3, <3>1, <3>2, BusyChanges
      <3> QED
        BY <1>b, <2>1, <3>3
    <2> QED
      BY <1>1, <2>2, <2>3, BeginEffect
  <1>2. ASSUME NEW c \in Callers, Acquire(c)
        PROVE  SlotsCounted'
    <2>1. Op(c) \in Operations /\ Op(c) \notin Busy /\ inUse' = inUse + 1
      BY <1>2, AcquireEffect DEF Busy
    <2>2. Busy' = Busy \cup {Op(c)}
      BY <1>2, BusyChanges, AcquireEffect
    <2>3. IsFiniteSet(Busy') /\ Cardinality(Busy') = Cardinality(Busy) + 1
      BY <1>0, <2>1, <2>2, FS_AddElement
    <2> QED
      BY <1>0, <2>1, <2>3 DEF SlotsCounted
  <1>3. ASSUME NEW c \in Callers, CallReturns(c)
        PROVE  SlotsCounted'
    <2>1. inUse' = inUse /\ Op(c) \in Operations
      BY <1>3, ReturnEffect
    <2>2. CASE worker' = worker
      BY <1>a, <2>1, <2>2
    <2>3. CASE worker[Op(c)] \in Results /\ Becomes(Op(c), "none")
      <3>1. Op(c) \notin Busy
        BY <2>3 DEF Busy, Results
      <3>2. Busy' = Busy
        BY <2>1, <2>3, <3>1, BusyChanges
      <3> QED
        BY <1>b, <2>1, <3>2
    <2>4. CASE Becomes(Op(c), IF worker[Op(c)] = "busy" THEN "busy" ELSE "none")
      <3>1. Op(c) \in Busy <=> Limited(Op(c)) /\ worker[Op(c)] = "busy"
        BY <2>1 DEF Busy
      <3>2. Busy' = Busy
        BY <2>1, <2>4, <3>1, BusyChanges
      <3> QED
        BY <1>b, <2>1, <3>2
    <2> QED
      BY <1>3, <2>2, <2>3, <2>4, ReturnEffect
  <1>4. ASSUME NEW c \in Callers, InlineEnds(c)
        PROVE  SlotsCounted'
    BY <1>4, <1>a, InlineEffect
  <1>5. ASSUME NEW o \in Operations, WorkerEnds(o)
        PROVE  SlotsCounted'
    <2>1. PICK r \in Results : Becomes(o, IF Awaited(o) THEN r ELSE "none")
      BY <1>5, WorkerEffect
    <2>2. Busy' = Busy \ {o}
      BY <2>1, BusyChanges DEF Results
    <2>3. o \in Busy <=> Limited(o)
      BY <1>5, WorkerEffect DEF Busy
    <2>4. inUse' = IF Limited(o) THEN inUse - 1 ELSE inUse
      BY <1>5, WorkerEffect
    <2>5. CASE Limited(o)
      <3>1. IsFiniteSet(Busy') /\ Cardinality(Busy') = Cardinality(Busy) - 1
        BY <1>0, <2>2, <2>3, <2>5, FS_RemoveElement
      <3> QED
        BY <1>0, <2>4, <2>5, <3>1 DEF SlotsCounted
    <2>6. CASE ~Limited(o)
      BY <1>b, <2>2, <2>3, <2>4, <2>6
    <2> QED
      BY <2>5, <2>6
  <1>6. ASSUME CopyFile
        PROVE  SlotsCounted'
    BY <1>6, <1>a, CopyEffect
  <1>7. ASSUME MountChanges \/ ContextEnds \/ UNCHANGED ioVars
        PROVE  SlotsCounted'
    BY <1>7, <1>a DEF MountChanges, ContextEnds, copyVars, ioVars
  <1> QED
    BY <1>1, <1>2, <1>3, <1>4, <1>5, <1>6, <1>7 DEF IONext

\* What is in the file, in chunks.
LEMMA FileFacts ==
  ASSUME IOTypeOK
  PROVE  /\ Chunks \in Nat /\ Chunks > 0 /\ file.written \in Nat /\ file.written <= Chunks
         /\ file.synced \in Nat /\ file.final \in BOOLEAN
  <1>1. Chunks \in Nat \ {0}
    BY BoundedIOAssumption
  <1>2. file.written \in 0 .. Chunks /\ file.synced \in 0 .. Chunks /\ file.final \in BOOLEAN
    BY DEF IOTypeOK
  <1> QED
    BY <1>1, <1>2

\* Only the copy itself is at one of its steps.
LEMMA OnlyTheCopy ==
  ASSUME IOTypeOK, NEW c \in Callers, Op(c) \in CopySteps
  PROVE  c = "copy" /\ Op(c) = step
  BY OpFacts DEF IOTypeOK

\* What a step does to the file, to a file that is whole, and to what the copy returned.
LEMMA WholeStays ==
  ASSUME IOInv, [IONext]_ioVars
  PROVE  /\ file'.synced <= file'.written
         /\ Whole => Whole'
         /\ file.final => file'.final
  <1>0. /\ IOTypeOK /\ file.synced <= file.written /\ Chunks \in Nat
        /\ file.written \in Nat /\ file.synced \in Nat
    BY FileFacts DEF IOInv, WrittenInOrder
  <1>1. ASSUME file' = file
        PROVE  /\ file'.synced <= file'.written
               /\ Whole => Whole'
               /\ file.final => file'.final
    BY <1>0, <1>1 DEF Whole
  <1>2. ASSUME NEW o \in Operations, NEW r \in Results, Operate(o, r),
               o = "chunk" => file.written < Chunks
        PROVE  /\ file'.synced <= file'.written
               /\ Whole => Whole'
               /\ file.final => file'.final
    <2>1. /\ o # "chunk" => file'.written = file.written
          /\ file.written <= file'.written /\ file'.written \in Nat
          /\ file'.synced \in {file.synced, file.written}
          /\ o # "sync" => file'.synced = file.synced
          /\ file.final => file'.final
      BY <1>0, <1>2, OperateEffect
    <2>2. file'.synced <= file'.written
      BY <1>0, <2>1
    <2>3. Whole => Whole'
      BY <1>0, <1>2, <2>1 DEF Whole
    <2> QED
      BY <2>1, <2>2, <2>3
  <1>3. ASSUME NEW c \in Callers, InlineEnds(c)
        PROVE  \E o \in Operations, r \in Results :
                 Operate(o, r) /\ (o = "chunk" => file.written < Chunks)
    BY <1>3, InlineEffect, ChunkHasRoom
  <1>4. ASSUME NEW o \in Operations, WorkerEnds(o)
        PROVE  \E r \in Results : Operate(o, r) /\ (o = "chunk" => file.written < Chunks)
    BY <1>4, WorkerEffect, ChunkHasRoom
  <1>5. \/ file' = file
        \/ \E o \in Operations, r \in Results :
             Operate(o, r) /\ (o = "chunk" => file.written < Chunks)
    BY <1>3, <1>4, BeginEffect, AcquireEffect, ReturnEffect, CopyEffect
    DEF IONext, MountChanges, ContextEnds, copyVars, ioVars
  <1> QED
    BY <1>1, <1>2, <1>5

\* A caller that begins, gets its slot, or returns.
LEMMA WrittenCallStep ==
  ASSUME IOInv, NEW c \in Callers, BeginCall(c) \/ Acquire(c) \/ CallReturns(c)
  PROVE  WrittenInOrder'
  <1>0. IOTypeOK /\ WrittenInOrder /\ "copy" \in Callers
    BY DEF IOInv, Callers
  <1>1. file' = file /\ step' = step /\ copied' = copied /\ Op(c) \in Operations
    BY BeginEffect, AcquireEffect, ReturnEffect
  <1>2. Op(c) \in CopySteps => c = "copy" /\ Op(c) = step
    BY <1>0, OnlyTheCopy
  <1>3. {"chunk", "rename", "sync"} \subseteq CopySteps \cap Operations
    BY DEF CopySteps, Operations
  <1>4. ASSUME NEW s \in {"chunk", "rename", "sync"}, worker'[s] # worker[s]
        PROVE  /\ step = s /\ c = "copy"
               /\ \/ worker'[s] = "none"
                  \/ worker'[s] = "busy" /\ call[c] = "idle"
                  \/ worker'[s] = "busy" /\ call[c] = "queued" /\ Limited(s)
    <2>1. worker' # worker
      BY <1>4
    <2>2. CASE BeginCall(c)
      <3>1. Becomes(Op(c), "busy") /\ call[c] = "idle"
        BY <2>1, <2>2, BeginEffect
      <3> QED
        BY <1>2, <1>3, <1>4, <3>1 DEF Becomes
    <2>3. CASE Acquire(c)
      <3>1. Becomes(Op(c), "busy") /\ call[c] = "queued" /\ Limited(Op(c))
        BY <2>3, AcquireEffect
      <3> QED
        BY <1>2, <1>3, <1>4, <3>1 DEF Becomes
    <2>4. CASE CallReturns(c)
      <3>1. \E w : Becomes(Op(c), w) /\ w \in {"none", worker[Op(c)]}
        BY <2>1, <2>4, ReturnEffect
      <3> QED
        BY <1>2, <1>3, <1>4, <3>1 DEF Becomes
    <2> QED
      BY <2>2, <2>3, <2>4
  <1>5. worker'["chunk"] = "busy" => file.written < Chunks
    <2>1. CASE worker'["chunk"] = worker["chunk"]
      BY <1>0, <2>1 DEF WrittenInOrder
    <2>2. CASE worker'["chunk"] # worker["chunk"]
      BY <1>0, <1>4, <2>2 DEF WrittenInOrder, Limited
    <2> QED
      BY <2>1, <2>2
  <1>a. c # "copy" => call'["copy"] = call["copy"]
    <2>1. \E v : ComesTo(c, v)
      BY BeginEffect, AcquireEffect, ReturnEffect
    <2> QED
      BY <1>0, <2>1 DEF ComesTo
  <1>6. call'["copy"] \in {"idle", "inline"} => call["copy"] \in {"idle", "inline"}
    <2>1. CASE c # "copy"
      BY <1>a, <2>1
    <2>2. CASE BeginCall(c) /\ c = "copy"
      BY <2>2, BeginEffect
    <2>3. CASE Acquire(c) /\ c = "copy"
      BY <2>3, AcquireEffect DEF ComesTo
    <2>4. CASE CallReturns(c) /\ c = "copy"
      BY <2>4, ReturnEffect DEF ComesTo, Results
    <2> QED
      BY <2>1, <2>2, <2>3, <2>4
  <1>7. call'["copy"] = "ok" =>
          call["copy"] = "ok" \/ (step \in CopySteps /\ worker[step] = "ok")
    <2>1. CASE c # "copy"
      BY <1>a, <2>1
    <2>2. CASE BeginCall(c) /\ c = "copy"
      BY <2>2, BeginEffect DEF ComesTo
    <2>3. CASE Acquire(c) /\ c = "copy"
      BY <2>3, AcquireEffect DEF ComesTo
    <2>4. CASE CallReturns(c) /\ c = "copy"
      <3>1. Op(c) = step /\ step \in CopySteps
        BY <1>0, <1>1, <2>4, EndIsNoOperation DEF Op, IOTypeOK
      <3> QED
        BY <2>4, <3>1, ReturnEffect DEF ComesTo
    <2> QED
      BY <2>1, <2>2, <2>3, <2>4
  <1>8. worker'["rename"] # "none" => step = "rename" \/ worker["rename"] # "none"
    BY <1>4
  <1>9. /\ worker'["sync"] = "ok" => worker["sync"] = "ok"
        /\ worker'["rename"] = "ok" => worker["rename"] = "ok"
    BY <1>4
  <1> QED
    BY <1>0, <1>1, <1>5, <1>6, <1>7, <1>8, <1>9 DEF WrittenInOrder, Whole

\* The kernel is through with an operation, awaited or late.
LEMMA WrittenWorkerStep ==
  ASSUME IOInv, NEW o \in Operations, WorkerEnds(o),
         /\ file'.synced <= file'.written
         /\ Whole => Whole'
         /\ file.final => file'.final
  PROVE  WrittenInOrder'
  <1>0. IOTypeOK /\ WrittenInOrder /\ "copy" \in Callers
    BY DEF IOInv, Callers
  <1>1. PICK r \in Results : Operate(o, r) /\ Becomes(o, IF Awaited(o) THEN r ELSE "none")
    BY WorkerEffect
  <1>2. /\ worker[o] = "busy" /\ worker'[o] \in {r, "none"} /\ r \in {"ok", "error"}
        /\ \A q \in Operations \ {o} : worker'[q] = worker[q]
        /\ step' = step /\ call' = call /\ copied' = copied
    BY <1>1, WorkerEffect DEF Becomes, Results
  <1>3. {"chunk", "rename", "sync"} \subseteq CopySteps \cap Operations
    BY DEF CopySteps, Operations
  <1>4. o = "chunk" => file.written < Chunks
    BY <1>2, ChunkHasRoom
  <1>5. /\ o # "chunk" => file'.written = file.written
        /\ o = "sync" /\ r = "ok" => file'.synced = file.written
        /\ o # "rename" => file'.final = file.final
        /\ o = "rename" /\ r = "ok" => file'.final
    BY <1>0, <1>1, <1>4, OperateEffect
  <1>6. /\ Chunks \in Nat /\ file.written \in Nat /\ Chunks > 0
    BY <1>0, FileFacts
  <1>7. o = "chunk" =>
          /\ step \notin {"prepare", "create", "open"}
          /\ ~(step = "chunk" /\ call["copy"] \in {"idle", "inline"})
          /\ step \notin {"sync", "close", "mirror", "rename"}
    <2>1. o = "chunk" /\ step \in {"prepare", "create", "open"} => worker[o] = "none"
      BY <1>3, StepFacts DEF IOInv, LeftBehind
    <2>2. Knows("copy") /\ Op("copy") = step
      BY <1>0 DEF IOInv, CallersKnow, Op
    <2>3. step = "chunk" /\ call["copy"] \in {"idle", "inline"} => worker[step] = "none"
      BY <2>2 DEF Knows
    <2>4. step \in {"sync", "close", "mirror", "rename"} => file.written = Chunks
      BY <1>0 DEF WrittenInOrder
    <2> QED
      BY <1>2, <1>4, <1>6, <2>1, <2>3, <2>4
  <1>8. worker'["chunk"] = "busy" => file'.written < Chunks
    BY <1>0, <1>2, <1>3, <1>5 DEF WrittenInOrder
  <1>9. /\ step' \in {"prepare", "create", "open"} => file'.written = 0
        /\ step' = "chunk" /\ call'["copy"] \in {"idle", "inline"} => file'.written < Chunks
        /\ step' \in {"sync", "close", "mirror", "rename"} => file'.written = Chunks
    BY <1>0, <1>2, <1>5, <1>7 DEF WrittenInOrder
  <1>10. \/ step' \in {"close", "mirror", "rename"} \/ worker'["rename"] # "none"
         \/ step' = "sync" /\ (call'["copy"] = "ok" \/ worker'["sync"] = "ok")
         \/ file'.final
         => Whole'
    <2>1. worker'["rename"] # "none" => worker["rename"] # "none"
      BY <1>2, <1>3
    <2>2. file'.final => file.final \/ worker["rename"] # "none"
      BY <1>2, <1>5
    <2>3. step = "sync" /\ worker'["sync"] = "ok" /\ worker["sync"] # "ok" => Whole'
      <3>1. SUFFICES ASSUME step = "sync", worker'["sync"] = "ok", worker["sync"] # "ok"
                     PROVE  Whole'
        OBVIOUS
      <3>2. o = "sync" /\ r = "ok"
        BY <1>2, <1>3, <3>1
      <3>3. file.written = Chunks
        BY <1>0, <3>1 DEF WrittenInOrder
      <3> QED
        BY <1>5, <3>2, <3>3 DEF Whole
    <2>4. \/ step \in {"close", "mirror", "rename"} \/ worker["rename"] # "none"
          \/ step = "sync" /\ (call["copy"] = "ok" \/ worker["sync"] = "ok")
          \/ file.final
          => Whole
      BY <1>0 DEF WrittenInOrder
    <2> QED
      BY <1>2, <2>1, <2>2, <2>3, <2>4
  <1>11. step' = "rename" /\ (call'["copy"] = "ok" \/ worker'["rename"] = "ok") => file'.final
    BY <1>0, <1>2, <1>3, <1>5 DEF WrittenInOrder
  <1>12. /\ step' \notin Cleanups \cup {"end"} => copied' = "not yet"
         /\ copied' = "ok" => file'.final
    BY <1>0, <1>2 DEF WrittenInOrder
  <1> QED
    BY <1>8, <1>9, <1>10, <1>11, <1>12 DEF WrittenInOrder

\* The same for an operation that ran without a goroutine.
LEMMA WrittenInlineStep ==
  ASSUME IOInv, NEW c \in Callers, InlineEnds(c),
         /\ file'.synced <= file'.written
         /\ Whole => Whole'
         /\ file.final => file'.final
  PROVE  WrittenInOrder'
  <1>0. IOTypeOK /\ WrittenInOrder /\ "copy" \in Callers
    BY DEF IOInv, Callers
  <1>1. PICK r \in Results : Operate(Op(c), r) /\ ComesTo(c, r)
    BY InlineEffect
  <1>2. /\ call[c] = "inline" /\ worker[Op(c)] = "none" /\ Op(c) \in Operations
        /\ call'[c] = r /\ r \in {"ok", "error"}
        /\ c # "copy" => call'["copy"] = call["copy"]
        /\ step' = step /\ worker' = worker /\ copied' = copied
    BY <1>0, <1>1, InlineEffect DEF ComesTo, Results
  <1>3. {"chunk", "rename", "sync"} \subseteq CopySteps
    BY DEF CopySteps
  <1>4. Op(c) \in CopySteps => c = "copy" /\ Op(c) = step
    BY <1>0, OnlyTheCopy
  <1>5. c = "copy" => Op(c) = step
    BY DEF Op
  <1>6. Op(c) = "chunk" => file.written < Chunks
    BY <1>2, ChunkHasRoom
  <1>7. /\ Op(c) # "chunk" => file'.written = file.written
        /\ Op(c) = "sync" /\ r = "ok" => file'.synced = file.written
        /\ Op(c) # "rename" => file'.final = file.final
        /\ Op(c) = "rename" /\ r = "ok" => file'.final
    BY <1>0, <1>1, <1>2, <1>6, OperateEffect
  <1>8. worker'["chunk"] = "busy" => file'.written < Chunks
    BY <1>0, <1>2, <1>7 DEF WrittenInOrder
  <1>9. /\ step' \in {"prepare", "create", "open"} => file'.written = 0
        /\ step' \in {"sync", "close", "mirror", "rename"} => file'.written = Chunks
    BY <1>0, <1>2, <1>3, <1>4, <1>7 DEF WrittenInOrder
  <1>10. step' = "chunk" /\ call'["copy"] \in {"idle", "inline"} => file'.written < Chunks
    BY <1>0, <1>2, <1>3, <1>4, <1>7 DEF WrittenInOrder
  <1>11. \/ step' \in {"close", "mirror", "rename"} \/ worker'["rename"] # "none"
         \/ step' = "sync" /\ (call'["copy"] = "ok" \/ worker'["sync"] = "ok")
         \/ file'.final
         => Whole'
    <2>1. file'.final => file.final \/ step = "rename"
      BY <1>3, <1>4, <1>7
    <2>2. step = "sync" /\ call'["copy"] = "ok" /\ call["copy"] # "ok" => Whole'
      <3>1. SUFFICES ASSUME step = "sync", call'["copy"] = "ok", call["copy"] # "ok"
                     PROVE  Whole'
        OBVIOUS
      <3>2. Op(c) = "sync" /\ r = "ok"
        BY <1>2, <1>5, <3>1
      <3>3. file.written = Chunks
        BY <1>0, <3>1 DEF WrittenInOrder
      <3> QED
        BY <1>7, <3>2, <3>3 DEF Whole
    <2>3. \/ step \in {"close", "mirror", "rename"} \/ worker["rename"] # "none"
          \/ step = "sync" /\ (call["copy"] = "ok" \/ worker["sync"] = "ok")
          \/ file.final
          => Whole
      BY <1>0 DEF WrittenInOrder
    <2> QED
      BY <1>2, <2>1, <2>2, <2>3
  <1>12. step' = "rename" /\ (call'["copy"] = "ok" \/ worker'["rename"] = "ok") => file'.final
    BY <1>0, <1>2, <1>5, <1>7 DEF WrittenInOrder
  <1>13. /\ step' \notin Cleanups \cup {"end"} => copied' = "not yet"
         /\ copied' = "ok" => file'.final
    BY <1>0, <1>2 DEF WrittenInOrder
  <1> QED
    BY <1>8, <1>9, <1>10, <1>11, <1>12, <1>13 DEF WrittenInOrder

\* The copy goes on.
LEMMA WrittenCopyStep ==
  ASSUME IOInv, CopyFile
  PROVE  WrittenInOrder'
  <1>0. /\ IOTypeOK /\ WrittenInOrder
        /\ Chunks \in Nat /\ Chunks > 0 /\ file.written \in Nat /\ file.written <= Chunks
    BY FileFacts DEF IOInv
  <1>1. /\ file' = file /\ worker' = worker /\ call'["copy"] = "idle"
        /\ step \in CopySteps
    BY CopyEffect DEF ComesTo
  <1>2. {"sync", "rename"} \subseteq CopySteps
    BY DEF CopySteps
  <1>3. /\ step' \in {"prepare", "create", "open"} => file.written = 0
        /\ step' = "chunk" => file.written < Chunks
    BY <1>0, CopyEffect DEF WrittenInOrder
  <1>4. step' \in {"sync", "close", "mirror", "rename"} => file.written = Chunks
    <2>1. step' = "sync" => ~(file.written < Chunks)
      BY CopyEffect
    <2>2. step' \in {"close", "mirror", "rename"} => step \in {"sync", "close", "mirror"}
      BY CopyEffect
    <2>3. step \in {"sync", "close", "mirror"} => file.written = Chunks
      BY <1>0 DEF WrittenInOrder
    <2> QED
      BY <1>0, <2>1, <2>2, <2>3
  <1>5. step' \in {"close", "mirror", "rename"} => Whole
    <2>1. \/ step' = "close" /\ step = "sync" /\ call["copy"] = "ok"
          \/ step \in {"close", "mirror"}
          \/ step' \notin {"close", "mirror", "rename"}
      BY CopyEffect
    <2> QED
      BY <1>0, <2>1 DEF WrittenInOrder
  <1>6. /\ step' = "sync" => worker["sync"] # "ok"
        /\ step' = "rename" => worker["rename"] # "ok"
    <2>1. /\ step' = "sync" => step = "chunk"
          /\ step' = "rename" => step = "mirror"
      BY CopyEffect
    <2> QED
      BY <1>2, <2>1 DEF IOInv, LeftBehind
  <1>7. step' \notin Cleanups \cup {"end"} => copied' = "not yet"
    <2>1. step # "end"
      BY <1>1, EndIsNoOperation DEF Operations
    <2> QED
      BY <1>0, <2>1, CopyEffect DEF WrittenInOrder
  <1>8. copied' = "ok" => file.final
    BY <1>0, CopyEffect DEF WrittenInOrder
  <1> QED
    BY <1>0, <1>1, <1>3, <1>4, <1>5, <1>6, <1>7, <1>8 DEF WrittenInOrder, Whole

LEMMA WrittenStep ==
  ASSUME IOInv, [IONext]_ioVars
  PROVE  WrittenInOrder'
  <1>1. ASSUME MountChanges \/ ContextEnds \/ UNCHANGED ioVars
        PROVE  WrittenInOrder'
    BY <1>1 DEF IOInv, WrittenInOrder, Whole, MountChanges, ContextEnds, copyVars, ioVars
  <1> QED
    BY <1>1, WholeStays, WrittenCallStep, WrittenWorkerStep, WrittenInlineStep, WrittenCopyStep
    DEF IONext

LEMMA IOInvInit == IOInit => IOInv
  <1> SUFFICES ASSUME IOInit
               PROVE  IOInv
    OBVIOUS
  <1>1. Chunks \in Nat /\ Chunks > 0 /\ Slots \in Nat
    BY BoundedIOAssumption
  <1>2. IOTypeOK
    <2>a. inUse = 0
      BY DEF IOInit
    <2>b. 0 \in 0 .. Slots /\ 0 \in 0 .. Chunks
      BY <1>1
    <2>1. inUse \in 0 .. Slots /\ 0 \in 0 .. Chunks
      BY <2>a, <2>b
    <2>2. file \in [temp : BOOLEAN, final : BOOLEAN, written : 0 .. Chunks,
                    synced : 0 .. Chunks]
      BY <2>1 DEF IOInit
    <2>3. /\ call \in [Callers -> {"idle", "inline"} \cup Results \cup Awaiting \cup GivenUp]
          /\ worker \in [Operations -> {"none", "busy"} \cup Results]
      BY DEF IOInit
    <2>4. step \in CopySteps \cup {"end"}
      BY DEF IOInit, CopySteps
    <2> QED
      BY <2>1, <2>2, <2>3, <2>4 DEF IOInit, IOTypeOK
  <1>3. /\ \A o \in Operations : worker[o] = "none"
        /\ \A c \in Callers : call[c] = "idle"
    BY DEF IOInit
  <1>4. CallersKnow
    BY <1>2, <1>3, OpFacts DEF CallersKnow, Knows, IOTypeOK
  <1>5. LeftBehind
    BY <1>3 DEF LeftBehind, Operations
  <1>6. SlotsCounted
    <2>1. Busy = {}
      BY <1>3 DEF Busy
    <2> QED
      BY <2>1, FS_EmptySet DEF SlotsCounted, IOInit
  <1>7. WrittenInOrder
    <2>1. worker["chunk"] = "none" /\ worker["rename"] = "none" /\ call["copy"] = "idle"
      BY <1>3 DEF Operations, CopySteps, Callers
    <2>2. /\ file.written = 0 /\ file.synced = 0 /\ ~file.final
          /\ step = "prepare" /\ copied = "not yet"
      BY DEF IOInit
    <2>3. /\ file.synced <= file.written
          /\ step = "chunk" /\ call["copy"] \in {"idle", "inline"} => file.written < Chunks
          /\ worker["chunk"] = "busy" => file.written < Chunks
      <3>1. 0 <= 0 /\ 0 < Chunks
        BY <1>1
      <3> QED
        BY <2>2, <3>1, Zenon
    <2> QED
      BY <2>1, <2>2, <2>3 DEF WrittenInOrder
  <1> QED
    BY <1>2, <1>4, <1>5, <1>6, <1>7 DEF IOInv

LEMMA IOInvStep == IOInv /\ [IONext]_ioVars => IOInv'
  BY TypeStep, CallersStep, LeftBehindStep, SlotsStep, WrittenStep DEF IOInv

\* None of what follows needs the fairness of IOSpec.
LEMMA IOInvAlways == IOInit /\ [][IONext]_ioVars => []IOInv
  BY IOInvInit, IOInvStep, PTL

\* Every variable keeps to its range; in particular the limiter never hands out
\* more slots than it has, nor takes one back that it did not hand out.
THEOREM IOTypeCorrect == IOSpec => []IOTypeOK
  <1>1. IOInv => IOTypeOK
    BY DEF IOInv
  <1> QED
    BY <1>1, IOInvAlways, PTL DEF IOSpec

\* No slot of the limiter leaks and none is given back twice: those in use are the
\* goroutines in the kernel, whether their callers still wait for them or not.
THEOREM NoSlotLeaks == IOSpec => []SlotsCounted
  BY IOInvAlways, PTL DEF IOInv, IOSpec

\* However late an abandoned operation of copyFile takes effect, the final name
\* only ever names a whole file that is on disk, and a copy reported successful
\* has one.
THEOREM FinalNamesAWholeFile == IOSpec => []FinalIsWhole
  <1>1. IOInv => FinalIsWhole
    BY DEF IOInv, WrittenInOrder, Whole, FinalIsWhole
  <1> QED
    BY <1>1, IOInvAlways, PTL DEF IOSpec

-----------------------------------------------------------------------------
(* The copy as an atomic one.                                               *)

\* What listing the directory shows, of a file in its final place or not.
LEMMA NamesFacts ==
  ASSUME IOInv
  PROVE  /\ file.final => Whole
         /\ file.final \in BOOLEAN
         /\ copied = "ok" => file.final
  BY FileFacts DEF IOInv, WrittenInOrder

\* What is reported is reported once, at the end of the steps that may fail.
LEMMA ReportedOnce ==
  ASSUME IOInv, [IONext]_ioVars
  PROVE  \/ copied' = copied
         \/ copied = "not yet" /\ copied' \in {"ok", "failed"} /\ file' = file
  <1>1. CASE CopyFile
    <2>1. file' = file
      BY <1>1, CopyEffect
    <2>2. CASE CleanUp
      BY <2>2 DEF CleanUp
    <2>3. CASE CopyGoesOn
      <3>1. copied = "not yet"
        <4>1. step \notin Cleanups \cup {"end"}
          BY <2>3 DEF CopyGoesOn, CopySteps, Cleanups
        <4> QED
          BY <4>1 DEF IOInv, WrittenInOrder
      <3>2. copied' \in {"failed", "ok", copied}
        BY <2>3 DEF CopyGoesOn
      <3> QED
        BY <2>1, <3>1, <3>2
    <2> QED
      BY <1>1, <2>2, <2>3 DEF CopyFile
  <1>2. CASE MountChanges \/ ContextEnds \/ UNCHANGED ioVars
    BY <1>2 DEF MountChanges, ContextEnds, copyVars, ioVars
  <1>3. ASSUME NEW c \in Callers, BeginCall(c) \/ Acquire(c) \/ CallReturns(c)
                                    \/ InlineEnds(c)
        PROVE  copied' = copied
    BY <1>3 DEF BeginCall, Acquire, CallReturns, Receive, GiveUp, InlineEnds, copyVars
  <1>4. ASSUME NEW o \in Operations, WorkerEnds(o)
        PROVE  copied' = copied
    BY <1>4 DEF WorkerEnds, copyVars
  <1> QED
    BY <1>1, <1>2, <1>3, <1>4 DEF IONext

LEMMA PromiseInit == IOInit => Promise!Init
  <1> SUFFICES ASSUME IOInit
               PROVE  Promise!Init
    OBVIOUS
  <1>1. /\ file.final = FALSE
        /\ copied = "not yet"
    BY DEF IOInit
  <1> QED
    BY <1>1 DEF Promise!Init, FinalNames

LEMMA PromiseStep ==
  ASSUME IOInv, IOInv', [IONext]_ioVars
  PROVE  [Promise!Next]_<<FinalNames, copied>>
  <1>1. /\ file.final => Whole
        /\ copied = "ok" => file.final
    BY NamesFacts
  <1>2. /\ file'.final => Whole'
        /\ copied' = "ok" => file'.final
    BY DEF IOInv, WrittenInOrder
  <1>3. file.final => file'.final
    BY WholeStays
  <1>4. /\ FinalNames = IF file.final THEN "whole" ELSE "nothing"
        /\ FinalNames' = IF file'.final THEN "whole" ELSE "nothing"
    BY <1>1, <1>2 DEF FinalNames
  <1>5. CASE copied' = copied
    BY <1>1, <1>2, <1>3, <1>4, <1>5 DEF Promise!Next, Promise!Appear
  <1>6. CASE copied = "not yet" /\ copied' \in {"ok", "failed"} /\ file' = file
    BY <1>2, <1>4, <1>6 DEF Promise!Next, Promise!Succeed, Promise!Fail
  <1> QED
    BY <1>5, <1>6, ReportedOnce

\* For a file of any length, any number of slots and any other callers: whatever
\* hangs, is given up and takes effect late, copyFile is an atomic copy.
THEOREM CopyImplementsAtomicCopy == IOSpec => CopyIsAtomic
  <1>1. IOInv /\ IOInv' /\ [IONext]_ioVars => [Promise!Next]_<<FinalNames, copied>>
    BY PromiseStep
  <1> QED
    BY <1>1, PromiseInit, IOInvAlways, PTL DEF IOSpec, CopyIsAtomic, Promise!Spec
=============================================================================
