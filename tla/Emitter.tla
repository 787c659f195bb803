------------------------------ MODULE Emitter ------------------------------
(***************************************************************************)
(* Emitter (biz/emitter.go) with the filter chain (filter/): one copy loop *)
(* per input, which reads a message, drops it if the filters or the        *)
(* limiter say so, and writes it to every output, one after the other.     *)
(*                                                                         *)
(* The steps are combined with those of the inputs and outputs in          *)
(* Recording and Replay.                                                   *)
(***************************************************************************)
EXTENDS Message, Sequences

CONSTANTS Inputs,           \* InOutPlugins.Inputs
          Outputs,          \* InOutPlugins.Outputs, in order of registration
          IncludeFilters,   \* each the set of the methods it matches
          ExcludeFilters,
          RateLimited       \* --rate-limit-qps is given

ASSUME EmitterAssumption == /\ Outputs # <<>>
                            /\ RateLimited \in BOOLEAN

VARIABLES loop,      \* per input, the message of its copy loop, and the
                     \* number of the output it writes it to
          passed,    \* history: per input, the messages written, in order
          stopped    \* history: the messages dropped

emitterVars == <<loop, passed, stopped>>

Reading == [msg |-> NoMessage, at |-> 0]

EmitterInit == /\ loop = [i \in Inputs |-> Reading]
               /\ passed = [i \in Inputs |-> <<>>]
               /\ stopped = {}

\* MethodMatchIncludeFilter and MethodExcludeFilter: the message may pass.
Matches(methods, m) == MethodOf[m] \in methods
NotExcluded(methods, m) == MethodOf[m] \notin methods

\* FilterChain.Filter.
Filter(m) == /\ \A methods \in IncludeFilters : Matches(methods, m)
             /\ \A methods \in ExcludeFilters : NotExcluded(methods, m)

\* Limiter.Allow, at an arbitrary rate; without a limiter everything passes.
Allow == IF RateLimited THEN BOOLEAN ELSE {TRUE}

\* CopyMulty: src.Read returns m.
Copy(i, m) ==
    /\ loop[i] = Reading
    /\ \E allowed \in Allow :
         IF Filter(m) /\ allowed
         THEN /\ loop' = [loop EXCEPT ![i] = [msg |-> m, at |-> 1]]
              /\ passed' = [passed EXCEPT ![i] = Append(@, m)]
              /\ UNCHANGED stopped
         ELSE /\ stopped' = stopped \cup {m}
              /\ UNCHANGED <<loop, passed>>

Writing(i, out) == loop[i] # Reading /\ Outputs[loop[i].at] = out

\* Here and below, an operator that no other definition uses is a faulty
\* variant of the one that follows it, for the mutation of the checks.
OneMore(i) ==
    /\ loop' = [loop EXCEPT ![i] = IF @.at <= Len(Outputs) THEN [msg |-> @.msg, at |-> @.at + 1]
                                                           ELSE Reading]
    /\ UNCHANGED <<passed, stopped>>

\* dst.Write has returned; an error is logged only.
Written(i) ==
    /\ loop' = [loop EXCEPT ![i] = IF @.at < Len(Outputs) THEN [msg |-> @.msg, at |-> @.at + 1]
                                                          ELSE Reading]
    /\ UNCHANGED <<passed, stopped>>

\* A new process.
EmitterRestart == /\ loop' = [i \in Inputs |-> Reading]
                  /\ UNCHANGED <<passed, stopped>>
=============================================================================
