-------------------------- MODULE TopologyRegister --------------------------
(***************************************************************************)
(* The contract of application.TopologyStore: one current snapshot, read   *)
(* and replaced as a whole.  A Replace takes effect at one instant, at the *)
(* latest when it returns success; one that returned an error took effect  *)
(* or did not, and may still do so, but not any more once a Replace that   *)
(* was called later has taken effect.  A Current returns what was current  *)
(* at an instant of its call.                                              *)
(***************************************************************************)
CONSTANTS
    Writer,    \* calls of Replace
    Reader,    \* callers of Current
    Content,   \* what may be stored
    Nothing    \* the content of a store that has none, of a call that has none

VARIABLES
    stored,    \* the current content
    replace,   \* each call of Replace: [state, content, applied, after], where
               \* after are the calls that had returned when it was made
    read       \* the call of each reader: [state, content]

registerVars == <<stored, replace, read>>

NotCalled == [state |-> "idle", content |-> Nothing, applied |-> FALSE,
              after |-> {}]
NotReading == [state |-> "idle", content |-> Nothing]

Init ==
    /\ stored = Nothing
    /\ replace = [w \in Writer |-> NotCalled]
    /\ read = [r \in Reader |-> NotReading]

Returned == {w \in Writer : replace[w].state \in {"succeeded", "failed"}}

CallReplace(w, c) ==
    /\ replace[w].state = "idle"
    /\ replace' = [replace EXCEPT ![w].state = "called", ![w].content = c,
                                  ![w].after = Returned]
    /\ UNCHANGED <<stored, read>>

\* Mutant: what was given up takes effect whatever was replaced since.
ApplyAnyTime(w) ==
    /\ replace[w].state \in {"called", "failed"} /\ ~replace[w].applied
    /\ stored' = replace[w].content
    /\ replace' = [replace EXCEPT ![w].applied = TRUE]
    /\ UNCHANGED read

\* A later call has taken effect.
Superseded(w) ==
    \E u \in Writer : replace[u].applied /\ w \in replace[u].after

Apply(w) ==
    /\ replace[w].state \in {"called", "failed"} /\ ~replace[w].applied
    /\ ~Superseded(w)
    /\ stored' = replace[w].content
    /\ replace' = [replace EXCEPT ![w].applied = TRUE]
    /\ UNCHANGED read

ReturnReplace(w, state) ==
    /\ replace[w].state = "called"
    /\ state = "succeeded" => replace[w].applied
    /\ replace' = [replace EXCEPT ![w].state = state]
    /\ UNCHANGED <<stored, read>>

CallCurrent(r) ==
    /\ read[r].state \in {"idle", "returned"}
    /\ read' = [read EXCEPT ![r] = [state |-> "called", content |-> Nothing]]
    /\ UNCHANGED <<stored, replace>>

Look(r) ==
    /\ read[r].state = "called"
    /\ read' = [read EXCEPT ![r] = [state |-> "looked", content |-> stored]]
    /\ UNCHANGED <<stored, replace>>

ReturnCurrent(r) ==
    /\ read[r].state = "looked"
    /\ read' = [read EXCEPT ![r].state = "returned"]
    /\ UNCHANGED <<stored, replace>>

\* Current returns an error instead.
FailCurrent(r) ==
    /\ read[r].state \in {"called", "looked"}
    /\ read' = [read EXCEPT ![r] = NotReading]
    /\ UNCHANGED <<stored, replace>>

Next ==
    \/ \E w \in Writer :
          \/ \E c \in Content : CallReplace(w, c)
          \/ Apply(w)
          \/ \E state \in {"succeeded", "failed"} : ReturnReplace(w, state)
    \/ \E r \in Reader :
          CallCurrent(r) \/ Look(r) \/ ReturnCurrent(r) \/ FailCurrent(r)

Spec == Init /\ [][Next]_registerVars

=============================================================================
