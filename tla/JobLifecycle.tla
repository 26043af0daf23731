---------------------------- MODULE JobLifecycle ----------------------------
(***************************************************************************)
(* What the job queue promises, whatever tables and signals it is made of: *)
(* a single server that takes tasks in the order they joined, runs each    *)
(* task at most once, and never lets a task that has left come back.       *)
(***************************************************************************)
CONSTANT Tasks

VARIABLES phase, ahead   \* ahead: <<u, t>> when u joined the line before t

lifecycleVars == <<phase, ahead>>

Waiting == {t \in Tasks : phase[t] = "waiting"}

\* How a task may end; "interrupted" is a task whose process died under it,
\* "gone" one that nothing remembers any more.
Ended == {"finished", "error", "interrupted", "gone"}

\* The line once the tasks of S have left it.
Leave(S) == {p \in ahead : p[1] \notin S /\ p[2] \notin S}

LifecycleInit == phase = [t \in Tasks |-> "new"] /\ ahead = {}

Submit(t) ==
  /\ phase[t] = "new"
  /\ phase' = [phase EXCEPT ![t] = "submitting"]
  /\ UNCHANGED ahead

Join(t) ==
  /\ phase[t] = "submitting"
  /\ phase' = [phase EXCEPT ![t] = "waiting"]
  /\ ahead' = ahead \cup {<<u, t>> : u \in Waiting}

\* The submission breaks off: the task will never run.
Abandon(t) ==
  /\ phase[t] = "submitting"
  /\ \E p \in {"interrupted", "gone"} : phase' = [phase EXCEPT ![t] = p]
  /\ UNCHANGED ahead

Take(t) ==
  /\ \A u \in Tasks : phase[u] # "running"
  /\ phase[t] = "waiting"
  /\ \A u \in Tasks : <<u, t>> \notin ahead
  /\ phase' = [phase EXCEPT ![t] = "running"]
  /\ ahead' = Leave({t})

End(t) ==
  /\ phase[t] = "running"
  /\ \E p \in Ended : phase' = [phase EXCEPT ![t] = p]
  /\ UNCHANGED ahead

\* Waiting tasks are cancelled and ended ones forgotten, in any number; a
\* running task cannot be withdrawn.
Withdraw(S) ==
  /\ \A t \in S : phase[t] \in {"waiting"} \cup Ended
  /\ phase' = [t \in Tasks |-> IF t \in S THEN "gone" ELSE phase[t]]
  /\ ahead' = Leave(S)

LifecycleNext ==
  \/ \E t \in Tasks : Submit(t) \/ Join(t) \/ Abandon(t) \/ Take(t) \/ End(t)
  \/ \E S \in SUBSET Tasks : Withdraw(S)

LifecycleSpec == LifecycleInit /\ [][LifecycleNext]_lifecycleVars

-----------------------------------------------------------------------------
\* One server and one line: no two tasks run at a time, and of any two tasks
\* that wait one joined before the other.  It is what lets the models of the
\* pages keep their jobs in a sequence with one of them in hand.
OneLine ==
  /\ \A t, u \in Tasks : phase[t] = "running" /\ phase[u] = "running" => t = u
  /\ ahead \subseteq Waiting \X Waiting
  /\ \A t \in Waiting : <<t, t>> \notin ahead
  /\ \A t, u \in Waiting : t # u => <<t, u>> \in ahead \/ <<u, t>> \in ahead
  /\ \A t, u, v \in Waiting : <<t, u>> \in ahead /\ <<u, v>> \in ahead => <<t, v>> \in ahead
=============================================================================
