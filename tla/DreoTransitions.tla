-------------------------- MODULE DreoTransitions --------------------------
(***************************************************************************)
(* What the hub promises of the datapoints registered with                 *)
(* add_transition_datapoint, to the components that read their targets     *)
(* (get_boolean_datapoint_target, datapoint_transition_pending): the last  *)
(* value asked for stays wanted until a report agrees with it, or until    *)
(* the MCU, asked what the value is, says something else.                  *)
(*                                                                         *)
(* Nothing is said of queues, timeouts, retries or the handshake.  DreoHub *)
(* implements this specification.                                          *)
(***************************************************************************)
CONSTANTS Dps, Transition, Values, NoValue

VARIABLES
    wanted,     \* the value each datapoint is to have, or none
    known,      \* the value each datapoint was last reported to have, or none
    asking,     \* has the MCU been asked, and has it not answered?
    unread,     \* datapoints of the report being read
    authority   \* is that report the answer?

vars == <<wanted, known, asking, unread, authority>>

Batches == [Dps -> Values \cup {NoValue}]
Nothing == [d \in Dps |-> NoValue]

Init ==
    /\ wanted = Nothing
    /\ known = Nothing
    /\ asking = FALSE
    /\ unread = {}
    /\ authority = FALSE

\* Whether the MCU is asked, or no answer awaited any more, is up to the hub;
\* but it asks only on behalf of a wanted value.
MayAsk ==
    /\ asking' \in BOOLEAN
    /\ asking' => \E d \in Dps : wanted'[d] # NoValue

Ask ==
    /\ MayAsk
    /\ UNCHANGED <<wanted, known, unread, authority>>

\* The last request of a datapoint replaces the one before.
Request(batch) ==
    /\ wanted' = [d \in Dps |-> IF d \in Transition /\ batch[d] # NoValue
                                THEN batch[d] ELSE wanted[d]]
    /\ MayAsk
    /\ UNCHANGED <<known, unread, authority>>

\* The next report after asking is the answer, and the only one.
Hear(ids) ==
    /\ unread = {} /\ ~authority
    /\ unread' = ids
    /\ authority' = asking
    /\ asking' = FALSE
    /\ UNCHANGED <<wanted, known>>

\* A value that agrees settles the request, another one only with authority.
Learn(d, v) ==
    /\ d \in unread
    /\ unread' = unread \ {d}
    /\ wanted' = IF authority \/ wanted[d] = v THEN [wanted EXCEPT ![d] = NoValue] ELSE wanted
    /\ known' \in {known, [known EXCEPT ![d] = v]}
    /\ UNCHANGED <<asking, authority>>

Finish ==
    /\ unread = {}
    /\ authority' = FALSE
    /\ MayAsk
    /\ UNCHANGED <<wanted, known, unread>>

\* The MCU resets the session, or the device restarts.
Forget ==
    /\ wanted' = Nothing
    /\ known' \in {known, Nothing}
    /\ asking' = FALSE
    /\ unread' = {}
    /\ authority' = FALSE

Next ==
    \/ Ask
    \/ \E batch \in Batches : Request(batch)
    \/ \E ids \in SUBSET Dps : Hear(ids)
    \/ \E d \in Dps, v \in Values : Learn(d, v)
    \/ Finish
    \/ Forget

Spec == Init /\ [][Next]_vars
============================================================================
