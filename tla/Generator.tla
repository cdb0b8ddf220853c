------------------------------- MODULE Generator -------------------------------
(***************************************************************************)
(* generator_future (include/libcopp/coroutine/generator_promise.h): a     *)
(* value that somebody else sets, for which any number of coroutines may   *)
(* wait.  A client adds when it is awaited, set, reset and dropped.        *)
(***************************************************************************)
EXTENDS Promise

VARIABLE value   \* the future of each generator; "gone" when its context is destroyed

GeneratorTypeOK == value \in [Event -> {"pending", "ready", "gone"}]
GeneratorInit == value = [e \in Event |-> "pending"]

\* await_ready(), or an await_suspend() that does not suspend a killed coroutine.
AwaitReadyGenerator(c, e) ==
  /\ value[e] = "ready" \/ (value[e] = "pending" /\ ~MaySuspend(c))
  /\ GoOn(c, e)
  /\ UNCHANGED <<status, value>>

WaitForGenerator(c, e) ==
  /\ value[e] = "pending" /\ MaySuspend(c)
  /\ Suspend(c, e, <<>>)
  /\ AddCaller(e, c)
  /\ UNCHANGED <<status, waiting, value>>

\* await_suspend() runs a callback, which may set the value before it returns.
WaitForCallback(c, e) ==
  /\ value[e] = "pending" /\ MaySuspend(c)
  /\ Suspend(c, e, <<WakeCall(e, callers[e] \cup {c})>>)
  /\ value' = [value EXCEPT ![e] = "ready"]
  /\ callers' = Took(e)
  /\ UNCHANGED <<status, waiting>>

DetachGenerator(c, e) ==
  /\ At("await_resume") /\ Top.co = c /\ awaits[c] = e
  /\ Detached(c)
  /\ IF attached[c] THEN RemoveCaller(e, c) ELSE UNCHANGED callers
  /\ awaits' = [awaits EXCEPT ![c] = Null]
  /\ Goto("body")
  /\ UNCHANGED <<frame, status, waiting, value>>

\* set_value(), or the destruction of the context: both wake whoever waits for it.
SetGenerator(e, v) ==
  /\ value[e] # "gone"
  /\ value' = [value EXCEPT ![e] = v]
  /\ callers' = Took(e)
  /\ Push(WakeCall(e, callers[e]))
  /\ UNCHANGED <<frame, status, flags, waiting, awaits, attached>>

\* reset_value() of a generator whose value was used.
ResetGenerator(e) ==
  /\ value[e] = "ready"
  /\ value' = [value EXCEPT ![e] = "pending"]
  /\ UNCHANGED <<promiseVars, stack>>

=============================================================================
