---------------------------- MODULE EntryPoints ----------------------------
(* One call of the program into the MPI interface, and the calls it makes: *)
(* which error it finds first, how an error travels out through the nested *)
(* calls, and whether the count of nested calls, which decides who runs    *)
(* the error handler, and the explorer's own checks are as they were when  *)
(* it returns.  Error handlers return, as MPI_ERRORS_RETURN does.          *)
EXTENDS EntryScripts, Integers

CONSTANTS
  Calls,                        \* the entries the program calls, of Entries
  CheckModes,                   \* whether the library is built with CHECK_MODE
  Sturdy                        \* entries inside which nothing fails

VARIABLES
  stack,                        \* the entries that run, the innermost first
  level,                        \* NestLevel of the process
  chk,                          \* whether the explorer's checks are on
  ran,                          \* the errors handlers were run with
  ret,                          \* what the innermost entry returns, if it does
  checks,                       \* whether CHECK_MODE is defined
  given,                        \* the flaw of the arguments of the program
  fate                          \* whether an error happened, or was dropped

vars == <<stack, level, chk, ran, ret, checks, given, fate>>

(* The flaws of its arguments that an entry, or a call it makes, looks for *)
(* and with them the values that make it leave early.                      *)
RECURSIVE FlawsIn(_, _)
FlawsIn(todo, checked) ==
  UNION {LET s == todo[k]
         IN  CASE s.op = "check"   -> IF checked THEN DOMAIN s.finds ELSE {}
               [] s.op \in {"leaveIf", "onlyIf"} -> s.finds
               [] s.op = "oneOf"   -> UNION {FlawsIn(s.paths[p], checked) : p \in DOMAIN s.paths}
               [] s.op \in {"nest", "do"} ->
                    {Flaw(s.bind[f.arg], f.flaw) :
                       f \in {g \in FlawsIn(Entries[s.fn], checked) : g.arg \in DOMAIN s.bind}}
               [] OTHER -> {} : k \in DOMAIN todo}

NoFlaw == Flaw("none", "none")

(* copyData has a label that lowers the level without having raised it.    *)
Frame(fn, input) ==
  [fn |-> fn, todo |-> Entries[fn], input |-> input, old |-> "not set",
   lowers |-> fn = "copyData"]

Init ==
  /\ checks \in CheckModes
  /\ \E fn \in Calls : \E input \in {NoFlaw} \cup FlawsIn(Entries[fn], checks) :
       stack = <<Frame(fn, input)>> /\ given = input
  /\ level = 0 /\ chk = TRUE /\ ran = <<>> /\ ret = "none" /\ fate = "none"
----------------------------------------------------------------------------
Top  == Head(stack)
Idle == stack = <<>>
Running(op) ==
  /\ ~Idle /\ ret = "none"
  /\ Top.todo # <<>> /\ Head(Top.todo).op = op
Step == Head(Top.todo)

Proceed(change) == stack' = <<[change EXCEPT !.todo = Tail(@)]>> \o Tail(stack)

(* The functions that report errors run the handler, at the upper level    *)
(* only; the others return them.                                           *)
Silent == Inner \ {"lin_reduce", "net_gather", "net_scatter", "smp_broadCast_value"}

(* commHandleError, at the given level.                                    *)
HandleError(fn, code, at) ==
  ran' = IF at = 0 /\ fn \notin Silent THEN Append(ran, code) ELSE ran

(* The label of an entry restores the checks, from a variable that may not *)
(* have been set.                                                          *)
RestoreChecks(frame) ==
  IF \A k \in DOMAIN Entries[frame.fn] : Entries[frame.fn][k].op # "off" THEN chk' = chk
  ELSE \/ chk' = chk /\ frame.old # "on"
       \/ chk' = TRUE /\ frame.old # "off"

(* To a label of the first of frames: mpi_exception_unnest lowers.         *)
FailIn(frames, code, unnest) ==
  LET frame == Head(frames)
      at == IF unnest /\ frame.lowers THEN level - 1 ELSE level
  IN  /\ stack' = frames /\ ret' = code /\ level' = at
      /\ HandleError(frame.fn, code, at)
      /\ RestoreChecks(frame)
      /\ UNCHANGED <<checks, given>>
Fail(code, unnest) == FailIn(stack, code, unnest) /\ fate' = "failed"

(* One thing goes wrong: an argument has a flaw, or one call of the library *)
(* fails, which none does inside a sturdy entry.                           *)
MayFail == given = NoFlaw /\ fate = "none" /\ \A k \in DOMAIN stack : stack[k].fn \notin Sturdy

RunCheck ==
  /\ Running("check")
  /\ IF checks /\ Top.input \in DOMAIN Step.finds
     THEN Fail(Step.finds[Top.input], Step.late)
     ELSE Proceed(Top) /\ UNCHANGED <<level, chk, ran, ret, checks, given, fate>>

CallFxn ==
  /\ Running("fxn")
  /\ \/ Proceed(Top) /\ UNCHANGED <<level, chk, ran, ret, checks, given, fate>>
     \/ MayFail /\ \E class \in Step.classes : Fail(class, TRUE)

CallUnguarded ==
  /\ Running("slip")
  /\ \/ Proceed(Top) /\ UNCHANGED <<level, chk, ran, ret, checks, given, fate>>
     \/ MayFail /\ Fail(Step.class, FALSE)

AlwaysRefuse == Running("refuse") /\ Fail(Step.class, FALSE)

NestIncr ==
  /\ Running("up")
  /\ Proceed([Top EXCEPT !.lowers = TRUE]) /\ level' = level + 1
  /\ UNCHANGED <<chk, ran, ret, checks, given, fate>>

NestDecr ==
  /\ Running("down")
  /\ Proceed(Top) /\ level' = level - 1
  /\ UNCHANGED <<chk, ran, ret, checks, given, fate>>

ChecksOff ==
  /\ Running("off")
  /\ Proceed([Top EXCEPT !.old = IF chk THEN "on" ELSE "off"]) /\ chk' = FALSE
  /\ UNCHANGED <<level, ran, ret, checks, given, fate>>

ChecksOn ==
  /\ Running("on")
  /\ Proceed(Top) /\ chk' = (chk \/ Top.old = "on")
  /\ UNCHANGED <<level, ran, ret, checks, given, fate>>

Open(path) == path # <<>> /\ Head(path).op = "onlyIf" => Top.input \in Head(path).finds

Choose ==
  /\ Running("oneOf")
  /\ \E k \in DOMAIN Step.paths :
       /\ Open(Step.paths[k])
       /\ stack' = <<[Top EXCEPT !.todo = Step.paths[k] \o Tail(@)]>> \o Tail(stack)
  /\ UNCHANGED <<level, chk, ran, ret, checks, given, fate>>

(* An early return, or the end: MPI_SUCCESS, and nothing else.             *)
Succeed ==
  /\ \/ ~Idle /\ ret = "none" /\ Top.todo = <<>>
     \/ Running("quit")
     \/ Running("leaveIf") /\ Top.input \in Step.finds
  /\ ret' = "SUCCESS" /\ UNCHANGED <<stack, level, chk, ran, checks, given, fate>>

Stay ==
  /\ (Running("leaveIf") /\ Top.input \notin Step.finds) \/ Running("onlyIf")
  /\ Proceed(Top) /\ UNCHANGED <<level, chk, ran, ret, checks, given, fate>>

(* The flaw goes with the argument that has it.                            *)
Passed(bind) ==
  LET to == {arg \in DOMAIN bind : bind[arg] = Top.input.arg}
  IN  IF to = {} THEN NoFlaw ELSE Flaw(CHOOSE arg \in to : TRUE, Top.input.flaw)

Enter ==
  /\ Running("nest") \/ Running("do")
  /\ stack' = <<Frame(Step.fn, Passed(Step.bind))>> \o stack
  /\ UNCHANGED <<level, chk, ran, ret, checks, given, fate>>

(* The caller looks at every result under CHECK_MODE and at none without;  *)
(* the collectives look for negative ones, and the codes are positive.     *)
Return ==
  /\ ~Idle /\ ret # "none"
  /\ LET frames == Tail(stack)
         call == Head(Head(frames).todo)
         looked == (call.op = "nest" /\ checks /\ ret # "SUCCESS")
                   \/ (call.op = "do" /\ ret = "minus one")
     IN  IF frames = <<>>
         THEN stack' = <<>> /\ UNCHANGED <<level, chk, ran, ret, checks, given, fate>>
         ELSE IF looked THEN FailIn(frames, ret, call.op = "nest") /\ UNCHANGED fate
         ELSE /\ stack' = <<[Head(frames) EXCEPT !.todo = Tail(@)]>> \o Tail(frames)
              /\ ret' = "none"
              /\ fate' = IF ret = "SUCCESS" THEN fate ELSE "dropped"
              /\ UNCHANGED <<level, chk, ran, checks, given>>

Next ==
  \/ RunCheck \/ CallFxn \/ CallUnguarded \/ AlwaysRefuse \/ NestIncr \/ NestDecr \/ ChecksOff
  \/ ChecksOn \/ Choose \/ Succeed \/ Stay \/ Enter \/ Return

Spec == Init /\ [][Next]_vars
----------------------------------------------------------------------------
(* env.h:173: a call leaves the count of nested calls as it found it, on   *)
(* every way out: otherwise no error of a later call is ever reported.     *)
LevelKept == Idle => level = 0

(* p_comn.c:293: an error that no collective drops is returned, and the    *)
(* error handler runs with it once; without an error it does not run.      *)
ToldOnce ==
  Idle => /\ fate = "none" => ret = "SUCCESS" /\ ran = <<>>
          /\ fate = "failed" => ret # "SUCCESS" /\ ran = <<ret>>

(* main.c:73: the explorer's checks are on when the program goes on.  They *)
(* stay off after a wait for no request, which a receive from no process   *)
(* leaves, or for one that is kept (mpi_wait.c:54, 82), and after a        *)
(* reduction of nothing (mpi_reduce.c:712).                                *)
Lapsing ==
  {Flaw("request", flaw) : flaw \in {"null", "persistent", "cancelled"}}
  \cup {Flaw(arg, "no process") : arg \in {"source", "partner", "remote_leader"}}
  \cup {Flaw("count", "zero")}
ChecksBackOn == Idle /\ given \notin Lapsing => chk

(* No argument that a check of the call would refuse as null is read by a  *)
(* check before it.                                                        *)
NullUnread ==
  checks /\ Running("check") => \A arg \in Step.reads : Top.input # Flaw(arg, "null")
============================================================================
