------------------------------ MODULE ApiTokens ------------------------------
(***************************************************************************)
(* The API tokens of one user: they are counted and then created, revoked, *)
(* and each call of the API loads one and stamps it with the time.  No     *)
(* statement of this locks anything.                                       *)
(***************************************************************************)
EXTENDS Naturals, FiniteSets

CONSTANTS
    Tokens,   \* the keys that may ever be generated
    Callers,  \* requests under way at a time, of the profile page and of the API
    Max       \* MAX_TOKENS_PER_USER

\* A key is not mistaken for the step of a request, and only finitely many
\* requests are under way at a time.
ASSUME TokensAssumption ==
    /\ IsFiniteSet(Tokens) /\ IsFiniteSet(Callers) /\ Callers # {}
    /\ Max \in Nat
    /\ Tokens \cap {"idle", "counted", "served"} = {}

VARIABLES
    tokens,   \* the rows of the user
    revoked,  \* the rows deleted so far
    caller    \* [Callers -> the request]

tokensVars == <<tokens, revoked, caller>>

TokensTypeOK ==
    /\ tokens \subseteq Tokens /\ revoked \subseteq Tokens
    /\ caller \in [Callers -> {"idle", "counted", "served"} \cup Tokens]

TokensInit ==
    /\ tokens = {} /\ revoked = {}
    /\ caller = [c \in Callers |-> "idle"]

\* A faulty variant: a limit that lets one more through.
CountTokensLoosely(c) ==
    /\ caller[c] = "idle" /\ Cardinality(tokens) <= Max
    /\ caller' = [caller EXCEPT ![c] = "counted"]
    /\ UNCHANGED <<tokens, revoked>>

\* generate_api_token: the count is below the limit, and there is a label.
CountTokens(c) ==
    /\ caller[c] = "idle" /\ Cardinality(tokens) < Max
    /\ caller' = [caller EXCEPT ![c] = "counted"]
    /\ UNCHANGED <<tokens, revoked>>

\* ApiToken.generate
Generate(c, t) ==
    /\ caller[c] = "counted" /\ t \notin tokens \cup revoked
    /\ tokens' = tokens \cup {t}
    /\ caller' = [caller EXCEPT ![c] = "idle"]
    /\ UNCHANGED revoked

RevokeToken(t) ==
    /\ t \in tokens
    /\ tokens' = tokens \ {t}
    /\ revoked' = revoked \cup {t}
    /\ UNCHANGED caller

\* get_user_from_token finds the row of the key; without one the call ends.
FindToken(c, t) ==
    /\ caller[c] = "idle" /\ t \in tokens
    /\ caller' = [caller EXCEPT ![c] = t]
    /\ UNCHANGED <<tokens, revoked>>

\* save(update_fields=['last_used_at']) raises when the row is gone.
StampToken(c, t) ==
    /\ caller[c] = t
    /\ caller' = [caller EXCEPT ![c] = IF t \in tokens THEN "served" ELSE "idle"]
    /\ UNCHANGED <<tokens, revoked>>

\* The view has answered, or the request has died.
CallEnds(c) ==
    /\ caller[c] # "idle"
    /\ caller' = [caller EXCEPT ![c] = "idle"]
    /\ UNCHANGED <<tokens, revoked>>

TokensNext ==
    \/ \E c \in Callers :
         \/ CountTokens(c) \/ CallEnds(c)
         \/ \E t \in Tokens : Generate(c, t) \/ FindToken(c, t) \/ StampToken(c, t)
    \/ \E t \in Tokens : RevokeToken(t)

TokensSpec == TokensInit /\ [][TokensNext]_tokensVars

-----------------------------------------------------------------------------
(* Properties *)

Counted == {c \in Callers : caller[c] = "counted"}

\* A user has no more tokens than the limit that the page and its document name
\* (generate_api_token).
TokenLimit == Cardinality(tokens) <= Max

\* Requests that count before any of them creates do exceed the limit, but by
\* no more than there are requests at a time, less one (generate_api_token).
TokenBound == Cardinality(tokens) + Cardinality(Counted) < Max + Cardinality(Callers)

=============================================================================
