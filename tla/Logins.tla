------------------------------- MODULE Logins -------------------------------
(* Who logs in: a token is the uuid a login draws, and drawn but once. *)
CONSTANTS
    Users,    \* user ids
    Tokens,   \* the uuids the logins draw, each once
    Owner     \* the user who logs in with a token

ASSUME LoginsAssumption == Owner \in [Tokens -> Users]

OwnersOf(S) == {Owner[t] : t \in S}
=============================================================================
