------------------------------ MODULE CallLog ------------------------------
(***************************************************************************)
(* What the reader of OutputChan (plugin/input_raw.go) needs from an       *)
(* Http2Conn (http2/http2.go): a log of calls.  A call is handed on only   *)
(* when all of it that is recorded was exchanged between the peers, it is  *)
(* handed on at most once, and whole, which here is a call's name.  What   *)
(* is handed on is read in the order in which it was, and no more than     *)
(* Cap calls wait to be read.                                              *)
(*                                                                         *)
(* A call may be spoilt.  Then nothing is promised of it but that it stays *)
(* in the log's order and capacity: it may be handed on early, twice, or   *)
(* not whole, for which the log has 0.                                     *)
(*                                                                         *)
(* It does not promise that every call is handed on: one that was          *)
(* cancelled, or lost a frame, is not.                                     *)
(***************************************************************************)
EXTENDS Naturals, Sequences

CONSTANTS Calls,   \* the calls that may be handed on
          Cap      \* the number that may wait to be read

VARIABLES over,    \* the calls of which all that is recorded was exchanged
          spoilt,  \* the calls of which nothing is promised
          log,     \* the calls handed on, in order
          unread   \* those not yet read

lvars == <<over, spoilt, log, unread>>

Init == over = {} /\ spoilt = {} /\ log = <<>> /\ unread = <<>>

\* The peers exchange the last of a call.
End(r) == /\ r \notin over
          /\ over' = over \cup {r}
          /\ UNCHANGED <<spoilt, log, unread>>

Spoil == \E R \in SUBSET Calls : /\ spoilt' = spoilt \cup R
                                 /\ UNCHANGED <<over, log, unread>>

Enter(x) == /\ Len(unread) < Cap
            /\ log' = Append(log, x)
            /\ unread' = Append(unread, x)
            /\ UNCHANGED <<over, spoilt>>

HandOn(r) == /\ r \in over
             /\ \A i \in DOMAIN log : log[i] # r
             /\ Enter(r)

HandOnSpoilt == spoilt # {} /\ \E x \in spoilt \cup {0} : Enter(x)

Read == /\ unread # <<>>
        /\ unread' = Tail(unread)
        /\ UNCHANGED <<over, spoilt, log>>

Next == \/ \E r \in Calls : End(r) \/ HandOn(r)
        \/ Spoil \/ HandOnSpoilt \/ Read

Spec == Init /\ [][Next]_lvars
=============================================================================
