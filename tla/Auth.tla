-------------------------------- MODULE Auth --------------------------------
(***************************************************************************)
(* Digest authentication (src/auth.c): one Compy_Auth, with one nonce, for *)
(* all the clients of a server.                                            *)
(*                                                                         *)
(* MD5 is ideal: a response matches iff it was computed from the right     *)
(* password over the nonce and the method it comes with.  The URI is the   *)
(* one the header itself names and restricts nothing.  A nonce is drawn    *)
(* from 128 random bits, so a new one is different from every nonce that   *)
(* somebody still remembers; nonces nobody remembers are the same to the   *)
(* program and are used again by the model.                                *)
(***************************************************************************)
EXTENDS Integers, FiniteSets

CONSTANTS
    Clients,
    Right,      \* the clients that know their password
    Nonces,
    Methods,    \* of requests
    None

ASSUME AuthAssumption ==
    /\ Right \subseteq Clients
    /\ Methods # {}
    /\ IsFiniteSet(Nonces) /\ IsFiniteSet(Clients)
    /\ Cardinality(Nonces) > 2 * Cardinality(Clients) + 1
    /\ None \notin Nonces \cup Clients

VARIABLES
    nonce,      \* Compy_Auth.nonce
    failed,     \* history: generate_nonce has failed since Compy_Auth_new
    known,      \* known[c]: nonce of the last challenge client c received
    request,    \* request[c]: the request of c the server has not handled, or None
    heard,      \* right answers over `nonce` that were sent: anybody may have them
    granted,    \* history: granted[c]: whose answer let c in last time, and the
                \*   values of `last` and `failed` at that time, or None
    last,       \* history: the client that was challenged last
    refused     \* history: refused[c]: kind of the last request of c if refused,
                \*   with the value of `last` at that time

authVars == <<nonce, failed, known, request, heard, granted, refused, last>>

\* A request and its Authorization header: none; one without effect (another
\* scheme, a field missing, another realm, an unknown user); or a Digest over a
\* nonce that `maker` computed with the password it has, for the method `made`.
Plain == [kind |-> "plain", nonce |-> None, maker |-> None, made |-> None, method |-> None]
Unfit == [kind |-> "unfit", nonce |-> None, maker |-> None, made |-> None, method |-> None]
Digest(n, maker, made, method) ==
    [kind |-> "digest", nonce |-> n, maker |-> maker, made |-> made, method |-> method]

Remembered == {nonce} \cup { known[c] : c \in Clients }
    \cup { request[c].nonce : c \in { d \in Clients : request[d] # None } }

\* Compy_Auth_new, which fails if generate_nonce does.
AuthInit ==
    /\ nonce \in Nonces
    /\ failed = FALSE
    /\ known = [c \in Clients |-> None]
    /\ request = [c \in Clients |-> None]
    /\ heard = {}
    /\ granted = [c \in Clients |-> None]
    /\ refused = [c \in Clients |-> None]
    /\ last = None
-----------------------------------------------------------------------------
\* A client answers the last challenge it got, with the password it has.
Answer(c) ==
    /\ known[c] # None
    /\ \E m \in Methods :
           LET d == Digest(known[c], c, m, m)
           IN  /\ request' = [request EXCEPT ![c] = d]
               /\ heard' = IF c \in Right /\ d.nonce = nonce THEN heard \cup {d} ELSE heard

Send(c) ==
    /\ request[c] = None
    /\ \/ known[c] = None /\ request' = [request EXCEPT ![c] = Plain] /\ UNCHANGED heard
       \/ Answer(c)
       \/ c \notin Right /\ request' = [request EXCEPT ![c] = Unfit] /\ UNCHANGED heard
    /\ UNCHANGED <<nonce, failed, known, granted, refused, last>>

\* A client without the password repeats, on its own connection and in a request
\* of any method, a header that another one has sent.
Repeat(c) ==
    /\ c \notin Right
    /\ request[c] = None
    /\ \E d \in heard, m \in Methods :
           request' = [request EXCEPT ![c] = Digest(d.nonce, d.maker, d.made, m)]
    /\ UNCHANGED <<nonce, failed, known, heard, granted, refused, last>>

\* The tests of compy_auth_check in front of the label `challenge`.
Valid(r) == r.kind = "digest" /\ r.nonce = nonce /\ r.maker \in Right /\ r.made = r.method

\* Mutant: the nonce of Compy_Auth_new is kept.
GenerateNonce_Kept == UNCHANGED <<nonce, failed>>

\* generate_nonce; its result is not looked at, and the buffer keeps the old
\* nonce if there is no entropy.
GenerateNonce ==
    \/ nonce' \in Nonces \ Remembered /\ UNCHANGED failed
    \/ failed' = TRUE /\ UNCHANGED nonce

\* What is over another nonce than the new one is worth nothing any more.
Forget == heard' = { d \in heard : d.nonce = nonce' }

Grant(c) ==
    /\ Valid(request[c])
    /\ granted' = [granted EXCEPT ![c] =
           [maker |-> request[c].maker, last |-> last, failed |-> failed]]
    /\ refused' = [refused EXCEPT ![c] = None]
    /\ UNCHANGED <<known, last>>

\* Mutant: the nonce is good for one request.
Check_Grant_OneTime(c) == Grant(c) /\ GenerateNonce /\ Forget

Check_Grant(c) == Grant(c) /\ UNCHANGED <<nonce, failed, heard>>

\* Mutant: the header is formatted before the nonce is replaced.
Told_Before(c) == known' = [known EXCEPT ![c] = nonce]

\* The WWW-Authenticate header of the 401 response.
Told(c) == known' = [known EXCEPT ![c] = nonce']

Check_Challenge(c) ==
    /\ ~Valid(request[c])
    /\ GenerateNonce /\ Forget
    /\ Told(c)
    /\ refused' = [refused EXCEPT ![c] = [kind |-> request[c].kind, last |-> last]]
    /\ last' = c
    /\ UNCHANGED granted

\* compy_auth_check; the client has the answer before it sends again.
Check(c) ==
    /\ request[c] # None
    /\ request' = [request EXCEPT ![c] = None]
    /\ Check_Grant(c) \/ Check_Challenge(c)

AuthNext == \E c \in Clients : Send(c) \/ Repeat(c) \/ Check(c)

AuthSpec == AuthInit /\ [][AuthNext]_authVars

\* The server handles every request; a client that knows its password keeps
\* asking, and the others may fall silent.
AuthFairSpec ==
    /\ AuthSpec
    /\ \A c \in Clients : WF_authVars(Check(c))
    /\ \A c \in Right : WF_authVars(Send(c))
-----------------------------------------------------------------------------
\* Everything that is on its way or that somebody may still send.
Sendable == heard \cup ({ request[c] : c \in Clients } \ {None})

\* "Fresh nonce on every challenge": whoever is let in, with an answer of its own
\* or one it has repeated, the answer was computed with the password, and, unless
\* the system ran out of entropy, by the client that was challenged last at that
\* time.  So an answer is good, for everybody and for every URI, until the next
\* challenge, and for nobody behind it, also if it was on its way when the nonce
\* changed.
OnlyLastChallenged ==
    /\ \A c \in Clients : granted[c] # None =>
           /\ granted[c].maker \in Right
           /\ granted[c].failed \/ granted[c].maker = granted[c].last
    /\ ~failed =>
           /\ \A c \in Clients : known[c] = nonce => c = last
           /\ \A d \in Sendable : d.nonce = nonce => d.maker = last

\* The nonce stays good until the next challenge: a client that answers its last
\* challenge with the right password is refused only if another client was
\* challenged after it.
RefusedOnlyIfOvertaken ==
    \A c \in Right :
        refused[c] # None /\ refused[c].kind = "digest" => refused[c].last # c

\* A client that knows its password gets in if from some time on no other client
\* is challenged.
GetsInUndisturbed ==
    \A c \in Right : <>[](last \in {None, c}) => <>(granted[c] # None)
=============================================================================
