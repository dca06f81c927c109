------------------------------ MODULE BoundedIO -------------------------------
(***************************************************************************)
(* File operations on a mount that may stop answering: internal/safefs runs *)
(* each in a goroutine of its own, waits for it at most so long, and leaves *)
(* it behind where it is stuck; a limiter keeps the number of those within  *)
(* bounds.  Its client here is copyFile of the secondary storage, next to    *)
(* other callers that look at the same mount (Probes).                       *)
(*                                                                         *)
(* A probe stands for one call, and a step of the copy for one call, except *)
(* that stat and mkdir of its beginning, and chmod and chtimes of its end,   *)
(* are one call each.  All of them work under the context of the run.        *)
(***************************************************************************)
EXTENDS Naturals, FiniteSets

CONSTANTS
  Slots,   (* the capacity of fsOpLimiter                                  *)
  Probes,  (* calls of other goroutines                                    *)
  Chunks   (* the length of the file                                       *)

VARIABLES
  mount,    (* answers, or hangs                                           *)
  context,  (* live; passed: its deadline has, but its timer has not fired;*)
            (* or done: cancelled, or past its deadline                    *)
  inUse,    (* the slots taken                                             *)
  call,     (* what each caller has come to in the call it is at           *)
  worker,   (* the goroutine of each operation: none, busy in the kernel,   *)
            (* or done, with a result in the channel its caller waits at    *)
  step,     (* the operation copyFile is at                                *)
  tempFile, (* whether its variable holds the temporary file               *)
  copied,   (* what copyFile returned                                      *)
  file      (* the temporary name, the final name, the chunks written to   *)
            (* the file they name, and those known to be on disk           *)

ioVars == <<mount, context, inUse, call, worker, step, tempFile, copied, file>>

CopySteps == {"prepare", "create", "open", "chunk", "sync", "close", "mirror",
              "rename", "closeSource", "closeTemp", "remove"}
Operations == CopySteps \cup Probes
Callers    == {"copy"} \cup Probes
Awaiting   == {"queued", "waiting"}
GivenUp    == {"refused", "abandoned"}
Results    == {"ok", "error"}

ASSUME BoundedIOAssumption ==
  /\ Slots \in Nat \ {0} /\ Chunks \in Nat \ {0}
  /\ Probes \cap (CopySteps \cup {"copy", "end"}) = {}

IOTypeOK ==
  /\ mount \in {"answers", "hangs"} /\ context \in {"live", "passed", "done"}
  /\ inUse \in 0 .. Slots
  /\ call \in [Callers -> {"idle", "inline"} \cup Results \cup Awaiting \cup GivenUp]
  /\ worker \in [Operations -> {"none", "busy"} \cup Results]
  /\ step \in CopySteps \cup {"end"} /\ tempFile \in BOOLEAN
  /\ copied \in {"not yet", "ok", "failed"}
  /\ file \in [temp : BOOLEAN, final : BOOLEAN, written : 0 .. Chunks,
               synced : 0 .. Chunks]

IOInit ==
  /\ mount = "answers" /\ context = "live" /\ inUse = 0
  /\ call = [c \in Callers |-> "idle"] /\ worker = [o \in Operations |-> "none"]
  /\ step = "prepare" /\ tempFile = FALSE /\ copied = "not yet"
  /\ file = [temp |-> FALSE, final |-> FALSE, written |-> 0, synced |-> 0]

-----------------------------------------------------------------------------
(* One call: runBounded.                                                    *)

copyVars == <<step, tempFile, copied>>

\* CopyBounded passes no limiter.
Limited(o) == o # "chunk"

\* The operation caller c is at.
Op(c) == IF c = "copy" THEN step ELSE c

\* The context is looked at before and after what is left of its time; where
\* no time is left and it does not know yet, the operation runs unbounded.
BeginCall(c) ==
  /\ call[c] = "idle" /\ Op(c) # "end"
  /\ call' = [call EXCEPT ![c] =
       IF context = "done" THEN "refused"
       ELSE IF context = "passed" THEN "inline"
       ELSE IF Limited(Op(c)) THEN "queued" ELSE "waiting"]
  /\ worker' = IF call'[c] = "waiting" THEN [worker EXCEPT ![Op(c)] = "busy"]
               ELSE worker
  /\ UNCHANGED <<mount, context, inUse, copyVars, file>>

Acquire(c) ==
  /\ call[c] = "queued" /\ inUse < Slots
  /\ inUse' = inUse + 1
  /\ call' = [call EXCEPT ![c] = "waiting"]
  /\ worker' = [worker EXCEPT ![Op(c)] = "busy"]
  /\ UNCHANGED <<mount, context, copyVars, file>>

\* The call's timer fires, or the context ends.
MayGiveUp(c) == call[c] \in Awaiting

\* A result that is there already is lost: select takes either.
GiveUp(c) ==
  /\ MayGiveUp(c)
  /\ call' = [call EXCEPT ![c] = IF call[c] = "queued" THEN "refused" ELSE "abandoned"]
  /\ worker' = [worker EXCEPT ![Op(c)] = IF @ = "busy" THEN "busy" ELSE "none"]
  /\ UNCHANGED <<mount, context, inUse, copyVars, file>>

Receive(c) ==
  /\ call[c] = "waiting" /\ worker[Op(c)] \in Results
  /\ call' = [call EXCEPT ![c] = worker[Op(c)]]
  /\ worker' = [worker EXCEPT ![Op(c)] = "none"]
  /\ UNCHANGED <<mount, context, inUse, copyVars, file>>

CallReturns(c) == Receive(c) \/ GiveUp(c)

\* bug: the copy is made under its final name
Operate_InPlace(o, r) ==
  \/ r = "error" /\ o \notin Probes /\ UNCHANGED file
  \/ r = "ok" /\ file' = CASE o = "create" -> [file EXCEPT !.final = TRUE]
                           [] o = "chunk"  -> [file EXCEPT !.written = @ + 1]
                           [] o = "sync"   -> [file EXCEPT !.synced = file.written]
                           [] OTHER        -> file

\* The kernel is through with operation o, with result r; that of a probe does
\* not matter.
Operate(o, r) ==
  IF r = "error" THEN o \notin Probes /\ UNCHANGED file
  ELSE /\ o \in {"rename", "remove"} => file.temp
       /\ file' =
            CASE o = "create" -> [file EXCEPT !.temp = TRUE]
              [] o = "chunk"  -> [file EXCEPT !.written = @ + 1]
              [] o = "sync"   -> [file EXCEPT !.synced = file.written]
              [] o = "rename" -> [file EXCEPT !.temp = FALSE, !.final = TRUE]
              [] o = "remove" -> [file EXCEPT !.temp = FALSE]
              [] OTHER        -> file

AwaitedBy(o) == {c \in Callers : Op(c) = o /\ call[c] = "waiting"}

\* bug: the channel has no room for a result nobody waits for
HasRoom_Unbuffered(o) == AwaitedBy(o) # {}

\* The result channel of o, made for one result.
HasRoom(o) == TRUE

\* Abandoned or not, the goroutine acts when the mount answers.
WorkerEnds(o) ==
  /\ worker[o] = "busy" /\ mount = "answers" /\ HasRoom(o)
  /\ \E r \in Results :
       /\ Operate(o, r)
       /\ worker' = [worker EXCEPT ![o] = IF AwaitedBy(o) = {} THEN "none" ELSE r]
  /\ inUse' = IF Limited(o) THEN inUse - 1 ELSE inUse
  /\ UNCHANGED <<mount, context, call, copyVars>>

InlineEnds(c) ==
  /\ call[c] = "inline" /\ mount = "answers"
  /\ \E r \in Results : Operate(Op(c), r) /\ call' = [call EXCEPT ![c] = r]
  /\ UNCHANGED <<mount, context, inUse, worker, copyVars>>

-----------------------------------------------------------------------------
(* copyFile.                                                                *)

\* The errors of chmod and chtimes are only logged.
Failed == call["copy"] # "ok" /\ step # "mirror"

\* IsAbandoned: a goroutine may still use the two files, which are left to it.
LeavesHandles == call["copy"] \in GivenUp

More == step = "chunk" /\ file.written < Chunks

NextStep ==
  CASE step = "prepare" -> "create"
    [] step = "create"  -> "open"
    [] step = "open"    -> "chunk"
    [] step = "chunk"   -> IF More THEN "chunk" ELSE "sync"
    [] step = "sync"    -> "close"
    [] step = "close"   -> "mirror"
    [] step = "mirror"  -> "rename"
    [] step = "rename"  -> "closeSource"

\* The first of the deferred functions, the others of which follow in CleanUp.
Deferred ==
  CASE step \in {"prepare", "create"}       -> "end"
    [] step = "open"                        -> "closeTemp"
    [] step = "chunk" /\ LeavesHandles      -> "remove"
    [] OTHER                                -> "closeSource"

Cleanups == {"closeSource", "closeTemp", "remove"}

\* close lets go of the temporary file whatever comes of it.
CopyGoesOn ==
  /\ step \in CopySteps \ Cleanups
  /\ step' = IF Failed THEN Deferred ELSE NextStep
  /\ copied' = IF Failed THEN "failed" ELSE IF step = "rename" THEN "ok" ELSE copied
  /\ tempFile' = CASE step = "create" -> ~Failed
                   [] step = "close"  -> FALSE
                   [] step = "chunk"  -> ~LeavesHandles
                   [] OTHER           -> tempFile

\* Errors of the deferred functions change nothing once the copy has failed,
\* and that of closing the source not even then.
CleanUp ==
  /\ step \in Cleanups
  /\ step' = IF step = "closeSource" /\ tempFile THEN "closeTemp"
             ELSE IF step # "remove" /\ copied = "failed" THEN "remove"
             ELSE "end"
  /\ UNCHANGED <<copied, tempFile>>

CopyFile ==
  /\ call["copy"] \in Results \cup GivenUp
  /\ CopyGoesOn \/ CleanUp
  /\ call' = [call EXCEPT !["copy"] = "idle"]
  /\ UNCHANGED <<mount, context, inUse, worker, file>>

-----------------------------------------------------------------------------

\* The kernel, and the signals and deadlines of the run.
MountChanges ==
  /\ mount' = IF mount = "hangs" THEN "answers" ELSE "hangs"
  /\ UNCHANGED <<context, inUse, call, worker, copyVars, file>>

ContextEnds ==
  /\ \/ context = "live" /\ context' \in {"passed", "done"}
     \/ context = "passed" /\ context' = "done"
  /\ UNCHANGED <<mount, inUse, call, worker, copyVars, file>>

IONext ==
  \/ \E c \in Callers : BeginCall(c) \/ Acquire(c) \/ CallReturns(c) \/ InlineEnds(c)
  \/ \E o \in Operations : WorkerEnds(o)
  \/ CopyFile
  \/ MountChanges
  \/ ContextEnds

\* Timers fire and goroutines run; the mount answers when it pleases.
IOFairness ==
  /\ \A c \in Callers : WF_ioVars(CallReturns(c))
  /\ \A o \in Operations : WF_ioVars(WorkerEnds(o))

IOSpec == IOInit /\ [][IONext]_ioVars /\ IOFairness

-----------------------------------------------------------------------------

(* Whatever times out, is abandoned and takes effect late, the final name   *)
(* of a copy only ever names a whole file that is on disk, and a copy that  *)
(* was reported successful has one (copyFile).                              *)
Whole == file.written = Chunks /\ file.synced = Chunks

FinalIsWhole ==
  /\ file.final => Whole
  /\ copied = "ok" => file.final

FinalNames == IF ~file.final THEN "nothing" ELSE IF Whole THEN "whole" ELSE "a part"

Promise == INSTANCE AtomicCopy WITH names <- FinalNames, told <- copied

(* To whoever lists the directory, copyFile is atomic: the final name comes *)
(* to name the whole file in one step, perhaps after the copy was given up, *)
(* and keeps it, and what was reported is reported once and stays true.     *)
CopyIsAtomic == Promise!Spec

(* Every bounded call returns, on a mount that never answers again too, and *)
(* when all slots are taken by abandoned ones.  A call that ran inline, its *)
(* deadline having passed just before it began, is not a bounded one.       *)
CallsReturn == <>[](\A c \in Callers : call[c] \notin Awaiting)

(* Once the mount answers for good, every slot comes back, those of calls   *)
(* nobody waits for any more included.                                      *)
SlotsComeBack == <>[](mount = "answers") => <>[](inUse = 0)

(* A mount that hangs is outlived: nobody waits for it for ever, and it     *)
(* costs no slot for ever.                                                  *)
HangsAreOutlived == CallsReturn /\ SlotsComeBack
=============================================================================
