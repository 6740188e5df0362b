---------------------------- MODULE AtLeastOnce ----------------------------
(***************************************************************************)
(* What nidra_common/bus.py promises a producer and a group of consumers:  *)
(* a message that was sent may be completed any number of times, by        *)
(* anybody, and is retired only after it was completed.  Messages are      *)
(* numbered in the order they are sent.  The one way a message is lost is  *)
(* the length cap of the stream, which evicts the oldest messages.         *)
(***************************************************************************)
EXTENDS Integers

CONSTANTS
    Message,   \* a set of message numbers
    MaxLen     \* how many of the newest messages the cap never evicts

VARIABLES
    sent,       \* the messages sent so far
    evicted,    \* the ones the length cap removed from the stream
    completed,  \* the ones some handler completed at least once
    retired     \* the ones that are never delivered again

promiseVars == <<sent, evicted, completed, retired>>

Init == sent = {} /\ evicted = {} /\ completed = {} /\ retired = {}

\* The newest MaxLen of the messages S stay; of the others, any prefix goes.
MayEvict(S, E) ==
    /\ E \subseteq S
    /\ \A m \in E : \A n \in Message : n < m => n \in E
    /\ \A m \in E : m \in evicted \/ m + MaxLen \in S

Send(m) ==
    /\ m \notin sent
    /\ sent' = sent \union {m}
    /\ evicted \subseteq evicted'
    /\ MayEvict(sent', evicted')
    /\ UNCHANGED <<completed, retired>>

\* A handler returns, for the first time or again, before or after retirement.
Complete(m) ==
    /\ m \in sent
    /\ completed' = completed \union {m}
    /\ UNCHANGED <<sent, evicted, retired>>

Retire(m) ==
    /\ m \in completed
    /\ retired' = retired \union {m}
    /\ UNCHANGED <<sent, evicted, completed>>

Next == \E m \in Message : Send(m) \/ Complete(m) \/ Retire(m)

Spec == Init /\ [][Next]_promiseVars
==============================================================================
