-------------------------------- MODULE MCSqs --------------------------------
(* Attribute sets for small accounts. *)
EXTENDS Sqs

\* A queue of a one-second visibility timeout, created with a redrive policy
\* after two receives, and a later call that sets a delay.
NoAttributes ==
    [visibility_timeout |-> None, delay_seconds |-> None, max_receive_count |-> None]
RedriveAttributes ==
    {[NoAttributes EXCEPT !.visibility_timeout = 1, !.max_receive_count = 2]}
QueueAttributes == RedriveAttributes \cup {[NoAttributes EXCEPT !.delay_seconds = 1]}
==============================================================================
