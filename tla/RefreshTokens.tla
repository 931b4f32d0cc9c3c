---------------------------- MODULE RefreshTokens ----------------------------
(***************************************************************************)
(* Rotation of one session's refresh tokens: services/auth/                *)
(* authSessionService over models/authSession, and a native client that    *)
(* loses replies, retries and signs out.  Hashes are the tokens' numbers;  *)
(* a rotation is two updates, and other requests run between them.         *)
(***************************************************************************)
EXTENDS Integers

CONSTANTS
    MaxTokens, MaxRequests, MaxTime, \* bounds of the model
    Grace,      \* refreshTokenReplayGraceMilliseconds
    Stragglers  \* may a request its client gave up on still arrive?

TokensAssumption == /\ {MaxTokens, MaxRequests, MaxTime} \subseteq Nat
                           /\ Grace \in Nat \ {0} /\ Stragglers \in BOOLEAN

Token == 1..MaxTokens
NoToken == 0
Never == -1
Request == 1..MaxRequests

VARIABLES
    now,
    current, previous, rotatedAt, revoked, \* the session document
    issued,     \* tokens made so far
    request,    \* each request: what it presents and where it is
    waiting,    \* the refresh the client waits for
    held,       \* the client's token; none once signed out
    loggedOut,  \* a logout was confirmed
    retired,    \* when a token was first rotated out or replaced
    spent       \* tokens that rotated, and when their request read the clock

session == <<current, previous, rotatedAt, revoked>>
client == <<waiting, held, loggedOut>>
history == <<retired, spent>>
vars == <<now, session, issued, request, client, history>>

NoRequest == [kind |-> "none", token |-> NoToken, at |-> "unsent", time |-> 0, answer |-> NoToken]

\* The session has one current token, newer than the previous one.
TypeOK ==
    /\ now \in 0..MaxTime /\ issued \in Token
    /\ current \in 1..issued /\ previous \in {NoToken} \union 1..current - 1
    /\ rotatedAt \in {Never} \union 0..now /\ revoked \in BOOLEAN
    /\ request \in [Request -> [kind : {"none", "refresh", "logout"}, token : {NoToken} \union 1..issued,
                                at : {"unsent", "sent", "previous", "answered", "done"}, time : 0..now,
                                answer : {NoToken} \union 1..issued]]
    /\ waiting \in {0} \union Request /\ held \in {NoToken} \union 1..issued /\ loggedOut \in BOOLEAN
    /\ retired \in [Token -> {Never} \union 0..now] /\ spent \subseteq Token \X (0..now)

\* createSession
Init == /\ now = 0 /\ issued = 1
        /\ current = 1 /\ previous = NoToken /\ rotatedAt = Never /\ revoked = FALSE
        /\ request = [r \in Request |-> NoRequest]
        /\ waiting = 0 /\ held = 1 /\ loggedOut = FALSE
        /\ retired = [t \in Token |-> Never] /\ spent = {}

-----------------------------------------------------------------------------
\* The client: one refresh at a time, until it gives up on it.
Send(r, kind) == /\ request[r].at = "unsent" /\ \A q \in 1..r - 1 : request[q].at # "unsent"
                 /\ request' = [request EXCEPT ![r] = [NoRequest EXCEPT !.kind = kind, !.token = held, !.at = "sent"]]

SendRefresh(r) == /\ held # NoToken /\ waiting = 0
                  /\ Send(r, "refresh")
                  /\ waiting' = r
                  /\ UNCHANGED <<now, session, issued, held, loggedOut, history>>

\* A logout may overtake the client's own refresh; its token is forgotten.
SendLogout(r) == /\ held # NoToken
                 /\ Send(r, "logout")
                 /\ waiting' = 0 /\ held' = NoToken
                 /\ UNCHANGED <<now, session, issued, loggedOut, history>>

\* The reply is lost, or the client stops waiting for it.
GiveUp == /\ waiting # 0
          /\ Stragglers \/ request[waiting].at = "answered"
          /\ waiting' = 0
          /\ UNCHANGED <<now, session, issued, request, held, loggedOut, history>>

Receive(r) == /\ request[r].at = "answered"
              /\ request' = [request EXCEPT ![r].at = "done"]
              /\ IF request[r].kind = "logout"
                 THEN loggedOut' = TRUE /\ UNCHANGED <<waiting, held>>
                 ELSE /\ waiting' = IF waiting = r THEN 0 ELSE waiting
                      /\ held' = IF waiting = r THEN request[r].answer ELSE held
                      /\ UNCHANGED loggedOut
              /\ UNCHANGED <<now, session, issued, history>>

-----------------------------------------------------------------------------
Answer(r, token) == request' = [request EXCEPT ![r].at = "answered", ![r].answer = token]

\* A rotation puts a new token in place of the current one.
Replace(r, time) == /\ issued < MaxTokens
                    /\ issued' = issued + 1 /\ current' = issued + 1
                    /\ retired' = [retired EXCEPT ![current] = now]
                    /\ spent' = spent \union {<<request[r].token, time>>}
                    /\ Answer(r, issued + 1)

\* AuthSession.rotate, with the clock read when the request arrived.
Rotate(r) ==
    /\ request[r].kind = "refresh" /\ request[r].at = "sent"
    /\ IF request[r].token = current /\ ~revoked
       THEN Replace(r, now) /\ previous' = current /\ rotatedAt' = now
       ELSE /\ request' = [request EXCEPT ![r].at = "previous", ![r].time = now]
            /\ UNCHANGED <<current, previous, rotatedAt, issued, history>>
    /\ UNCHANGED <<now, revoked, client>>

\* Mutant: a replay starts its window anew.
ReplayedAtAnew(r) == request[r].time

\* rotateFromPrevious leaves rotatedAt as it is.
ReplayedAt(r) == rotatedAt

\* Mutant: the current token becomes the previous one, as in a rotation.
PreviousAfterReplayMoved == current

\* Mutant: the new token is filed as the previous one.
PreviousAfterReplayLost == issued + 1

\* The replayed token stays the previous one.
PreviousAfterReplay == previous

\* rotateFromPrevious: inside the window, only the current token is replaced.
RotateFromPrevious(r) ==
    /\ request[r].at = "previous"
    /\ IF request[r].token = previous /\ rotatedAt > request[r].time - Grace /\ ~revoked
       THEN Replace(r, request[r].time) /\ previous' = PreviousAfterReplay /\ rotatedAt' = ReplayedAt(r)
       ELSE /\ Answer(r, NoToken)
            /\ UNCHANGED <<current, previous, rotatedAt, issued, history>>
    /\ UNCHANGED <<now, revoked, client>>

\* Mutant: a logout knows only the current token.
RevokedByCurrent(t) == t = current

\* revokeByRefreshTokenHash
RevokedBy(t) == t \in {current, previous}

Revoke(r) ==
    /\ request[r].kind = "logout" /\ request[r].at = "sent"
    /\ revoked' = (revoked \/ RevokedBy(request[r].token))
    /\ Answer(r, NoToken)
    /\ UNCHANGED <<now, current, previous, rotatedAt, issued, client, history>>

Tick == /\ now < MaxTime
        /\ now' = now + 1
        /\ UNCHANGED <<session, issued, request, client, history>>

Next == \/ GiveUp \/ Tick
        \/ \E r \in Request : \/ SendRefresh(r) \/ SendLogout(r) \/ Receive(r)
                              \/ Rotate(r) \/ RotateFromPrevious(r) \/ Revoke(r)

Spec == Init /\ [][Next]_vars

-----------------------------------------------------------------------------
\* What the rotation promises.

\* A token that is no longer current rotates only inside the window of its
\* one rotation, however often it is replayed, and one whose place a replay
\* took never rotates again.
WindowIsFinal == \A e \in spent : retired[e[1]] = Never \/ e[2] < retired[e[1]] + Grace

\* A waiting client is refused only for cause: its session was revoked, or its
\* token was rotated out longer ago than the window.
RefusedForCause ==
    \A r \in Request : waiting = r /\ request[r].at = "answered" /\ request[r].answer = NoToken =>
        revoked \/ (retired[request[r].token] # Never /\ retired[request[r].token] + Grace <= request[r].time)

\* A logout wins every race with a refresh of the same client.
LogoutWins == loggedOut => revoked
=============================================================================
