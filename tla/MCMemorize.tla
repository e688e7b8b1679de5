----------------------------- MODULE MCMemorize -----------------------------
\* Memorize for TLC: three messages, two of them in one request, and a flush.
EXTENDS Memorize

CONSTANTS first, second, flushing, ann, bob

Requests == [c \in Calls |-> IF c = first THEN {1, 2} ELSE IF c = second THEN {3} ELSE {}]
Speakers == [m \in Messages |-> IF m = 3 THEN bob ELSE ann]

Roles(a, b, c) == [m \in Messages |-> IF m = 1 THEN a ELSE IF m = 2 THEN b ELSE c]

\* The first request may be sent again, after a failure or a lost answer.
OneResend == [c \in Calls |-> IF c = first THEN 2 ELSE 1]

\* Dialogues; tool rows behind the message they follow; a request of tool rows only,
\* which chat mode filters out; and agent sessions that open with tool calls, alone or
\* in front of the message of their request.
Dialogues ==
    {[mode |-> "chat", role |-> r] : r \in {Roles("user", "assistant", "user"),
                                            Roles("assistant", "user", "tool")}}
    \cup {[mode |-> "agent", role |-> r] : r \in {Roles("user", "tool", "user"),
                                                  Roles("tool", "user", "user"),
                                                  Roles("tool", "tool", "user")}}

\* What one proof supposes of the clients holds of these requests.
ASSUME RequestsAreDistinct
=============================================================================
